---------------------------- MODULE Spec2Model ----------------------------
(***************************************************************************)
(* Model of the graph-analysis servers of this repository:                 *)
(*   - BlockingQueue<T>, the mailbox of part9/server_pipeline.cpp,         *)
(*     driven by producer, consumer and closer threads (MailboxSpec);      *)
(*   - the Pipeline server of part9/server_pipeline.cpp (Spec), also       *)
(*     without SIGINT (RunSpec), from the dispatcher on under fair         *)
(*     scheduling (FanInSpec), with the stages downstream of the           *)
(*     dispatcher not scheduled (FanOutSpec), and with its Aggregator      *)
(*     stage fed in isolation (AggSpec);                                   *)
(*   - the Leader/Followers server of part8/server_lf.cpp (LFSpec).        *)
(* Each specification leaves the variables of the other parts unchanged.   *)
(***************************************************************************)
EXTENDS Integers, Sequences, FiniteSets, TLC

\* ------------------------------------------------------------------ bounds
\* producer threads of the mailbox harness
NumProducers == 2
\* consumer threads of the mailbox harness
NumConsumers == 2
\* push() calls made on the mailbox of the harness, over all producers
MaxItems == 3
\* close() calls made on the mailbox of the harness
MaxClose == 2
\* connections the Pipeline server's acceptor takes before it only waits
MaxConn == 2
\* worker threads of the Leader/Followers server (main() starts 2 to 4)
NumWorkers == 2
\* connections the Leader/Followers server accepts
MaxLfConn == 2
\* the edge count E a RANDOM request for a graph of two vertices asks for
MaxRandomE == 2
\* vertices of a graph handed to the strategies
MaxV == 3
\* addEdge calls that build a graph handed to the strategies
MaxEdges == 3
\* the largest edge weight of such a graph
MaxWeight == 2
\* edge tokens of a MANUAL request
MaxToks == 2

VARIABLES
    \* ---- BlockingQueue<T> under test, and the threads that use it
    mb,          \* the mailbox: [q |-> q_, closed |-> closed_]
    mb_waiters,  \* consumers blocked inside cv_.wait
    mb_ppc,      \* producer -> "idle" | "notify" (between unlock and notify_one)
    mb_cpc,      \* consumer -> "idle" | "waiting" | "woken"
    mb_ret,      \* consumer -> what its last completed pop() returned
    mb_closer,   \* [pc |-> "idle" | "notify", n |-> close() calls completed]
    mb_ticket,   \* number of push() calls made so far (the k-th call pushes k)
    mb_pushed,   \* history: items pushed while the mailbox was open, in order
    mb_popped    \* history: items returned by pop(), in order

mbVars == <<mb, mb_waiters, mb_ppc, mb_cpc, mb_ret, mb_closer, mb_ticket,
            mb_pushed, mb_popped>>

VARIABLES
    \* ---- Pipeline server (part9/server_pipeline.cpp)
    g_stop,         \* the global stop flag
    g_listen_fd,    \* the listening socket: 0 while open, -1 once closed
    sig_pc,         \* on_sigint: "none" | "stored" (g_stop set) | "done"
    q_in,           \* mailbox acceptor -> parser
    q_graph,        \* mailbox parser -> dispatcher
    q_alg,          \* algorithm name -> its mailbox (q_mst, q_scc, q_max, q_ham)
    q_agg_in,       \* mailbox dispatcher and workers -> aggregator
    q_send,         \* mailbox aggregator -> sender
    main_pc,        \* main(): [at |-> position, i |-> index of the worker mailbox to close]
    next_id,        \* main()'s next_id
    conns,          \* the client connections accepted so far (the sockets)
    parse_pc,       \* ParserStage::run: "run" | "random" (inside make_random_graph)
                    \*   | "terminated" (an exception left run()) | "done"
    parse_msg,      \* the ClientMsg the parser is building a random graph for, else <<>>
    disp_pc,        \* DispatcherStage::run: "run" | "push" | "done"
    disp_job,       \* the GraphJob the dispatcher holds: <<>> or <<gj>>
    disp_k,         \* which of its five pushes the dispatcher makes next
    disp_delivered, \* history: RequestId of a popped job -> targets that took its push
    alg_pc,         \* algorithm name -> AlgoWorker::run: "run" | "done"
    agg_pc,         \* AggregatorStage::run: "run" | "done"
    reqs_,          \* AggregatorStage::reqs_: RequestId -> State
    agg_consumed,   \* history: the algorithm results the aggregator has popped
    send_pc         \* SenderStage::run: "run" | "done"

queueVars == <<q_in, q_graph, q_alg, q_agg_in, q_send>>
mainVars  == <<main_pc, next_id>>
dispVars  == <<disp_pc, disp_job, disp_k, disp_delivered>>
aggVars   == <<agg_pc, reqs_, agg_consumed>>
sigVars   == <<g_stop, g_listen_fd, sig_pc>>

parseVars == <<parse_pc, parse_msg>>
plVars == <<sigVars, queueVars, mainVars, conns, parseVars, dispVars, alg_pc,
            aggVars, send_pc>>

VARIABLES
    \* ---- Leader/Followers server (part8/server_lf.cpp)
    lf_stop,        \* its g_stop
    lf_listen_fd,   \* its g_listen_fd: 0 while open, -1 once closed
    g_has_leader,   \* true while a thread holds leadership
    g_mu,           \* the mutex: 0 when free, else the worker that holds it
    g_cv,           \* the workers blocked inside g_cv.wait
    w_pc,           \* worker -> its position in worker_thread
    w_cfd,          \* worker -> what its accept() returned: 1 a connection, -1 failure, 0 none yet
    lf_main_pc,     \* main(): [at |-> position, i |-> next worker to spawn]
    lf_sig_pc,      \* on_sigint: "none" | "stored" | "closed" | "done"
    lf_accepted,    \* connections accepted so far
    lf_handled      \* connections handle_client has served and closed

lfVars == <<lf_stop, lf_listen_fd, g_has_leader, g_mu, g_cv, w_pc, w_cfd,
            lf_main_pc, lf_sig_pc, lf_accepted, lf_handled>>

VARIABLES
    \* ---- one Graph shared by the four strategies (a GraphJob's graph)
    sh_g,           \* the Graph object the shared_ptr points to
    sh_pc,          \* "idle" | "build" (addEdge calls go on) | "shared" (handed over)
    sh_built,       \* history: the graph as it was when it was handed over
    sh_text         \* algorithm name -> the text its run() returned, <<>> before

shVars == <<sh_g, sh_pc, sh_built, sh_text>>

VARIABLES
    \* ---- handle_client of the Leader/Followers server, serving one connection
    hc_pc,          \* "idle" | "recv" | "random" (inside make_random_graph) | "closed" | "terminated"
    hc_line,        \* the request line recv() reads
    hc_g,           \* its Graph g, handed to run_all_algorithms
    hc_out,         \* what send_all has written to the connection
    hc_open         \* the connection is open

hcVars == <<hc_pc, hc_line, hc_g, hc_out, hc_open>>

VARIABLES
    \* ---- a Graph used on its own (tests/test_euler.cpp)
    gr_g,           \* the Graph object
    gr_last,        \* the last call on it: [op, u, v, w, ret], ret its outcome
    gr_text         \* the text Euler::run returned, <<>> before

grVars == <<gr_g, gr_last, gr_text>>

vars == <<mbVars, plVars, lfVars, shVars, hcVars, grVars>>

\* ------------------------------------------------------ BlockingQueue<T>
\* A mailbox value: q_ and closed_ (mu_ is held for the length of one step).
NewQueue == [q |-> <<>>, closed |-> FALSE]

\* a push() that puts the item at the front of q_
BQPushFront(m, v) == IF m.closed THEN m ELSE [m EXCEPT !.q = <<v>> \o @]

\* push() with the closed_ test left out
BQPushIgnoringClosed(m, v) == [m EXCEPT !.q = Append(@, v)]

\* push(): under mu_, return if closed_, else q_.push(v)
BQPush(m, v) == IF m.closed THEN m ELSE [m EXCEPT !.q = Append(@, v)]

\* push() without its cv_.notify_one()
BQPushNeverNotifies(m) == FALSE

\* whether push() goes on to cv_.notify_one() (it returns early when closed_)
BQPushNotifies(m) == ~m.closed

\* the predicate pop() waits for
BQCanPop(m) == m.closed \/ m.q # <<>>

\* what pop() returns once its predicate holds: <<>> is std::nullopt
BQPopValue(m) == IF m.q = <<>> THEN <<>> ELSE <<Head(m.q)>>

\* pop() that leaves the front item in q_
BQPopRestKeep(m) == m

\* pop(): q_ after the front item is taken
BQPopRest(m) == IF m.q = <<>> THEN m ELSE [m EXCEPT !.q = Tail(@)]

\* close() that also discards the queued items
BQCloseClear(m) == [m EXCEPT !.closed = TRUE, !.q = <<>>]

\* a close() that leaves the mailbox open
BQCloseNothing(m) == m

\* close(): under mu_, closed_ = true
BQClose(m) == [m EXCEPT !.closed = TRUE]

\* ------------------------------------------- threads using one mailbox
Producers == 1..NumProducers
Consumers == 1..NumConsumers

NoRet == [kind |-> "none", v |-> 0, closed |-> FALSE]

MbInit ==
    /\ mb = NewQueue
    /\ mb_waiters = {}
    /\ mb_ppc = [p \in Producers |-> "idle"]
    /\ mb_cpc = [c \in Consumers |-> "idle"]
    /\ mb_ret = [c \in Consumers |-> NoRet]
    /\ mb_closer = [pc |-> "idle", n |-> 0]
    /\ mb_ticket = 0
    /\ mb_pushed = <<>>
    /\ mb_popped = <<>>

\* push(v), the part under mu_; v is the number of this push() call
PushLocked(p) ==
    /\ mb_ppc[p] = "idle"
    /\ mb_ticket < MaxItems
    /\ mb_ticket' = mb_ticket + 1
    /\ mb' = BQPush(mb, mb_ticket + 1)
    /\ mb_pushed' = IF mb.closed THEN mb_pushed ELSE Append(mb_pushed, mb_ticket + 1)
    /\ mb_ppc' = [mb_ppc EXCEPT ![p] = IF BQPushNotifies(mb) THEN "notify" ELSE "idle"]
    /\ UNCHANGED <<mb_waiters, mb_cpc, mb_ret, mb_closer, mb_popped>>
    /\ UNCHANGED <<plVars, lfVars, shVars, hcVars, grVars>>

\* push(v), cv_.notify_one() after mu_ is released: wakes one waiter, if any
PushNotify(p) ==
    /\ mb_ppc[p] = "notify"
    /\ mb_ppc' = [mb_ppc EXCEPT ![p] = "idle"]
    /\ IF mb_waiters = {}
          THEN UNCHANGED <<mb_waiters, mb_cpc>>
          ELSE \E c \in mb_waiters :
                  /\ mb_waiters' = mb_waiters \ {c}
                  /\ mb_cpc' = [mb_cpc EXCEPT ![c] = "woken"]
    /\ UNCHANGED <<mb, mb_ret, mb_closer, mb_ticket, mb_pushed, mb_popped>>
    /\ UNCHANGED <<plVars, lfVars, shVars, hcVars, grVars>>

\* pop() holding mu_: wait again if the predicate fails, else take the front
\* item or return nullopt
PopLocked(c) ==
    IF BQCanPop(mb)
       THEN /\ mb' = BQPopRest(mb)
            /\ mb_popped' = mb_popped \o BQPopValue(mb)
            /\ mb_ret' = [mb_ret EXCEPT ![c] =
                             IF BQPopValue(mb) = <<>>
                                THEN [kind |-> "closed", v |-> 0, closed |-> mb.closed]
                                ELSE [kind |-> "item", v |-> BQPopValue(mb)[1],
                                      closed |-> mb.closed]]
            /\ mb_cpc' = [mb_cpc EXCEPT ![c] = "idle"]
            /\ UNCHANGED mb_waiters
       ELSE /\ mb_waiters' = mb_waiters \cup {c}
            /\ mb_cpc' = [mb_cpc EXCEPT ![c] = "waiting"]
            /\ mb_ret' = [mb_ret EXCEPT ![c] = NoRet]
            /\ UNCHANGED <<mb, mb_popped>>

\* a call of pop(): lock mu_ and enter cv_.wait(lk, pred)
PopEnter(c) ==
    /\ mb_cpc[c] = "idle"
    /\ PopLocked(c)
    /\ UNCHANGED <<mb_ppc, mb_closer, mb_ticket, mb_pushed>>
    /\ UNCHANGED <<plVars, lfVars, shVars, hcVars, grVars>>

\* pop() after a wake-up: re-lock mu_ and test the predicate again
PopResume(c) ==
    /\ mb_cpc[c] = "woken"
    /\ PopLocked(c)
    /\ UNCHANGED <<mb_ppc, mb_closer, mb_ticket, mb_pushed>>
    /\ UNCHANGED <<plVars, lfVars, shVars, hcVars, grVars>>

\* a spurious wake-up of cv_.wait, which the predicate loop absorbs
PopSpurious(c) ==
    /\ mb_cpc[c] = "waiting"
    /\ mb_waiters' = mb_waiters \ {c}
    /\ mb_cpc' = [mb_cpc EXCEPT ![c] = "woken"]
    /\ UNCHANGED <<mb, mb_ppc, mb_ret, mb_closer, mb_ticket, mb_pushed, mb_popped>>
    /\ UNCHANGED <<plVars, lfVars, shVars, hcVars, grVars>>

\* close(), the part under mu_
CloseLocked ==
    /\ mb_closer.pc = "idle"
    /\ mb_closer.n < MaxClose
    /\ mb' = BQClose(mb)
    /\ mb_closer' = [mb_closer EXCEPT !.pc = "notify"]
    /\ UNCHANGED <<mb_waiters, mb_ppc, mb_cpc, mb_ret, mb_ticket, mb_pushed, mb_popped>>
    /\ UNCHANGED <<plVars, lfVars, shVars, hcVars, grVars>>

\* close() that wakes a single waiter (notify_one in place of notify_all)
CloseNotifyOne ==
    /\ mb_closer.pc = "notify"
    /\ mb_closer' = [pc |-> "idle", n |-> mb_closer.n + 1]
    /\ IF mb_waiters = {}
          THEN UNCHANGED <<mb_waiters, mb_cpc>>
          ELSE \E c \in mb_waiters :
                  /\ mb_waiters' = mb_waiters \ {c}
                  /\ mb_cpc' = [mb_cpc EXCEPT ![c] = "woken"]
    /\ UNCHANGED <<mb, mb_ppc, mb_ret, mb_ticket, mb_pushed, mb_popped>>
    /\ UNCHANGED <<plVars, lfVars, shVars, hcVars, grVars>>

\* close(), cv_.notify_all() after mu_ is released
CloseNotify ==
    /\ mb_closer.pc = "notify"
    /\ mb_closer' = [pc |-> "idle", n |-> mb_closer.n + 1]
    /\ mb_waiters' = {}
    /\ mb_cpc' = [c \in Consumers |->
                     IF c \in mb_waiters THEN "woken" ELSE mb_cpc[c]]
    /\ UNCHANGED <<mb, mb_ppc, mb_ret, mb_ticket, mb_pushed, mb_popped>>
    /\ UNCHANGED <<plVars, lfVars, shVars, hcVars, grVars>>

MbNext ==
    \/ \E p \in Producers : PushLocked(p)
    \/ \E p \in Producers : PushNotify(p)
    \/ \E c \in Consumers : PopEnter(c)
    \/ \E c \in Consumers : PopResume(c)
    \/ \E c \in Consumers : PopSpurious(c)
    \/ CloseLocked
    \/ CloseNotify

\* Threads run: a woken consumer re-locks, and a notify that is due is made.
MbFairness ==
    /\ \A c \in Consumers : WF_vars(PopResume(c))
    /\ \A p \in Producers : WF_vars(PushNotify(p))
    /\ WF_vars(CloseNotify)

\* the mailbox harness at rest, for the specifications of the other parts
MbIdle ==
    /\ mb = NewQueue
    /\ mb_waiters = {}
    /\ mb_ppc = [p \in Producers |-> "idle"]
    /\ mb_cpc = [c \in Consumers |-> "idle"]
    /\ mb_ret = [c \in Consumers |-> NoRet]
    /\ mb_closer = [pc |-> "idle", n |-> 0]
    /\ mb_ticket = 0
    /\ mb_pushed = <<>>
    /\ mb_popped = <<>>

\* ------------------------------------------------------------- Graph
\* Graph(n, kind, opts) with allowSelfLoops = allowMultiEdges = false:
\* m_adj holds one list of (neighbour, weight) per vertex, m the edge count.
NewGraph(n, directed) ==
    [n |-> n, directed |-> directed, adj |-> [u \in 0..(n - 1) |-> <<>>], m |-> 0]

\* Graph::hasArc
hasArc(g, u, v) == \E i \in 1..Len(g.adj[u]) : g.adj[u][i][1] = v

\* an addEdge without the multi-edge guard
addEdgeUnguarded(g, u, v, w) ==
    IF u = v THEN g
    ELSE LET a1 == [g.adj EXCEPT ![u] = Append(@, <<v, w>>)]
             a2 == IF g.directed THEN a1 ELSE [a1 EXCEPT ![v] = Append(@, <<u, w>>)]
         IN  [g EXCEPT !.adj = a2, !.m = @ + 1]

\* Graph::addEdge for endpoints in range: a self-loop throws before anything
\* is changed, an edge already present is ignored, else the arc (and for an
\* undirected graph its mirror) is appended and the edge count goes up.
addEdge(g, u, v, w) ==
    IF u = v THEN g
    ELSE IF hasArc(g, u, v) \/ (~g.directed /\ hasArc(g, v, u)) THEN g
    ELSE LET a1 == [g.adj EXCEPT ![u] = Append(@, <<v, w>>)]
             a2 == IF g.directed THEN a1 ELSE [a1 EXCEPT ![v] = Append(@, <<u, w>>)]
         IN  [g EXCEPT !.adj = a2, !.m = @ + 1]

\* a label that counts the entries of the adjacency lists
labelCountsArcs(g) ==
    LET RECURSIVE arcs(_)
        arcs(u) == IF u >= g.n THEN 0 ELSE Len(g.adj[u]) + arcs(u + 1)
    IN  <<IF g.directed THEN "Directed" ELSE "Undirected", "Graph(", g.n, "V,",
          arcs(0), "E)">>

\* Graph::label: "DirectedGraph(<n>V,<m>E)" or "UndirectedGraph(<n>V,<m>E)"
label(g) ==
    <<IF g.directed THEN "Directed" ELSE "Undirected", "Graph(", g.n, "V,", g.m, "E)">>

\* ------------------------------------------------------ request lines
\* A request line after tokenizing: kw1, kw2 and mode hold the lower-cased
\* first three words, V the vertex count read (0 when it does not parse),
\* colon whether ':' follows it, toks the edge tokens in order (dash: the token
\* holds a '-', num: std::stoi returns a number for each side of it, u and v:
\* those numbers) and directed whether the last token is "--directed". A
\* RANDOM line holds E, the edge count read.
Tok(u, v) == [dash |-> TRUE, num |-> TRUE, u |-> u, v |-> v]

\* an edge token without a '-'
NoDashTok == [dash |-> FALSE, num |-> FALSE, u |-> 0, v |-> 0]

\* an edge token such as "a-b" or "0-": std::stoi throws on a side
NonNumericTok == [dash |-> TRUE, num |-> FALSE, u |-> 0, v |-> 0]

\* the edge token "0-2147483648": std::stoi throws std::out_of_range on the
\* side that does not fit an int (v holds INT_MAX for the number written)
OverflowTok == [dash |-> TRUE, num |-> FALSE, u |-> 0, v |-> 2147483647]

ManualLine(V, toks, directed) ==
    [kw1 |-> "alg", kw2 |-> "all", mode |-> "manual", V |-> V, colon |-> TRUE,
     toks |-> toks, directed |-> directed]

\* what build_graph_from_command hands back: kind "error" when it returns
\* false, with err the first line of the message and more the lines the
\* message holds after it
BuildError(g, err) == [kind |-> "error", g |-> g, err |-> err, more |-> <<>>]

\* a usage message cut after its first line
UsageLinesCut == <<>>

\* the lines of "Unknown. Use:\n  ALG ALL RANDOM ...\n  ALG ALL MANUAL ...\n"
\* after the first; the '\n' that ends the message leaves an empty line
\* before the '\n' the reply adds
UsageLines ==
    <<"  ALG ALL RANDOM <V> <E> <SEED> [--directed]",
      "  ALG ALL MANUAL <V> : u-v u-v ... [--directed]",
      "">>

BuildUnknown ==
    [kind |-> "error", g |-> NewGraph(0, FALSE), err |-> <<"Unknown. Use:">>,
     more |-> UsageLines]

\* "Error: " + err + "\n" as lines: the first line, then the others
ErrorReply(b) == <<"Error: ", b.err>> \o b.more

BuildOk(g) == [kind |-> "graph", g |-> g, err |-> <<>>]
\* the call does not return: the std::invalid_argument or std::out_of_range
\* of std::stoi propagates
BuildThrow(g) == [kind |-> "throw", g |-> g, err |-> <<"std::stoi throws">>]

RandomLine(V, E, directed) ==
    [kw1 |-> "alg", kw2 |-> "all", mode |-> "random", V |-> V, E |-> E,
     directed |-> directed]

\* std::minmax(u, v)
minmax(u, v) == IF u <= v THEN <<u, v>> ELSE <<v, u>>

RECURSIVE manual_edges(_, _, _, _, _)
\* the loop of parse_manual_all over the edge tokens toks[i..], with the
\* graph built so far and the set `seen`; endpErr is the text that reports
\* invalid endpoints
manual_edges(toks, i, g, seen, endpErr) ==
    IF i > Len(toks) THEN BuildOk(g)
    ELSE LET t == toks[i] IN
         IF ~t.dash THEN BuildError(g, <<"Bad token: ", t>>)
         ELSE IF ~t.num THEN BuildThrow(g)
         ELSE IF t.u < 0 \/ t.v < 0 \/ t.u >= g.n \/ t.v >= g.n \/ t.u = t.v
              THEN BuildError(g, <<endpErr, t>>)
         ELSE IF g.directed
              THEN IF <<t.u, t.v>> \in seen
                      THEN BuildError(g, <<"Duplicate arc: ", t>>)
                      ELSE manual_edges(toks, i + 1, addEdge(g, t.u, t.v, 1),
                                        seen \cup {<<t.u, t.v>>}, endpErr)
              ELSE IF minmax(t.u, t.v) \in seen
                      THEN BuildError(g, <<"Duplicate edge: ", t>>)
                      ELSE manual_edges(toks, i + 1, addEdge(g, t.u, t.v, 1),
                                        seen \cup {minmax(t.u, t.v)}, endpErr)

\* the key make_random_graph keeps in `seen` for the pick (u, v)
random_key(directed, u, v) == IF directed THEN <<u, v>> ELSE minmax(u, v)

RECURSIVE make_random_graph(_, _, _, _, _)
\* the graphs the loop of make_random_graph can return from the point where
\* it has built g with the keys `seen` and `added` edges: it returns when
\* added = E, and at any iteration when g_stop is set (stop); an iteration
\* that picks u = v or a pair already seen changes nothing, one that picks a
\* fresh pair adds the edge. The empty set: the loop cannot return.
make_random_graph(g, seen, added, E, stop) ==
    (IF added >= E \/ stop THEN {g} ELSE {})
    \cup (IF added >= E THEN {}
          ELSE UNION { make_random_graph(addEdge(g, p[1], p[2], 1),
                                         seen \cup {random_key(g.directed, p[1], p[2])},
                                         added + 1, E, stop) :
                       p \in {r \in (0..(g.n - 1)) \X (0..(g.n - 1)) :
                                 /\ r[1] # r[2]
                                 /\ random_key(g.directed, r[1], r[2]) \notin seen} })

\* parse_manual_all of the Pipeline server
parse_manual_all(line) ==
    IF line.kw1 # "alg" \/ line.kw2 # "all" \/ line.mode # "manual"
       THEN BuildError(NewGraph(0, FALSE),
                       <<"Expected: ALG ALL MANUAL <V> : u-v u-v ... [--directed]">>)
    ELSE IF line.V = 0 \/ ~line.colon
       THEN BuildError(NewGraph(0, FALSE),
                       <<"Format: ALG ALL MANUAL <V> : u-v ... [--directed]">>)
    ELSE manual_edges(line.toks, 1, NewGraph(line.V, line.directed), {},
                      "Invalid endpoints: ")

\* build_graph_from_command of the Pipeline server. A RANDOM line with V > 0
\* goes on to make_random_graph: the result says so (kind "random").
build_graph_from_command(line) ==
    IF line.kw1 # "alg" \/ line.kw2 # "all"
       THEN BuildUnknown
    ELSE IF line.mode = "random"
       THEN IF line.V = 0
               THEN BuildError(NewGraph(0, FALSE), <<"V must be > 0">>)
               ELSE [kind |-> "random", g |-> NewGraph(line.V, line.directed), err |-> <<>>]
    ELSE IF line.mode = "manual" THEN parse_manual_all(line)
    ELSE BuildError(NewGraph(0, FALSE), <<"Bad mode. Use RANDOM or MANUAL.">>)

\* ------------------------------------------------ AlgorithmFactory.cpp
\* The text a strategy returns is a sequence of its literal pieces and of the
\* numbers it prints.

\* f(e) with e evaluated once, as a local of the C++ code is
With(e, f(_)) == CHOOSE r \in {f(x) : x \in {e}} : TRUE

\* ---- 1) AlgoMstWeight: Kruskal with a disjoint-set union
RECURSIVE mst_edges_of(_, _, _)
\* the inner loop over adj(u) from its i-th entry on: the edges kept
mst_edges_of(g, u, i) ==
    IF i > Len(g.adj[u]) THEN <<>>
    ELSE (IF u < g.adj[u][i][1]
             THEN <<[w |-> g.adj[u][i][2], u |-> u, v |-> g.adj[u][i][1]]>>
             ELSE <<>>) \o mst_edges_of(g, u, i + 1)

RECURSIVE mst_edges(_, _)
\* the edges (w, u, v) with u < v, scanning the adjacency lists of the
\* vertices u..n-1
mst_edges(g, u) ==
    IF u >= g.n THEN <<>>
    ELSE mst_edges_of(g, u, 1) \o mst_edges(g, u + 1)

\* std::sort by weight leaves the order of edges of equal weight unspecified:
\* every arrangement of the edges with non-decreasing weights is possible
mst_sorted_orders(edges) ==
    LET k == Len(edges)
        perms == {p \in [1..k -> 1..k] : \A i, j \in 1..k : i # j => p[i] # p[j]}
    IN  {[i \in 1..k |-> edges[p[i]]] : p \in
            {q \in perms : \A i \in 1..(k - 1) : edges[q[i]].w <= edges[q[i + 1]].w}}

RECURSIVE mst_insertHeaviestFirst(_, _)
\* an insertion that sorts by non-increasing weight
mst_insertHeaviestFirst(s, e) ==
    IF s = <<>> THEN <<e>>
    ELSE IF e.w > Head(s).w THEN <<e>> \o s
    ELSE <<Head(s)>> \o mst_insertHeaviestFirst(Tail(s), e)

RECURSIVE mst_insert(_, _)
\* e put into the sorted sequence s behind the edges of weight <= e.w
mst_insert(s, e) ==
    IF s = <<>> THEN <<e>>
    ELSE IF e.w < Head(s).w THEN <<e>> \o s
    ELSE <<Head(s)>> \o mst_insert(Tail(s), e)

RECURSIVE mst_sort(_)
\* the arrangement that keeps edges of equal weight in their order
mst_sort(edges) ==
    IF edges = <<>> THEN <<>>
    ELSE mst_insert(mst_sort(SubSeq(edges, 1, Len(edges) - 1)), edges[Len(edges)])

RECURSIVE dsu_find(_, _)
\* find with path compression: <<the root of x, parent afterwards>>
dsu_find(parent, x) ==
    IF parent[x] = x THEN <<x, parent>>
    ELSE With(dsu_find(parent, parent[x]), LAMBDA r :
             <<r[1], [r[2] EXCEPT ![x] = r[1]]>>)

\* unite by rank: merged says whether a and b were in different sets
dsu_unite(parent, rnk, a, b) ==
    With(dsu_find(parent, a), LAMBDA fa :
    With(dsu_find(fa[2], b), LAMBDA fb :
        LET ra == fa[1]
            rb == fb[1]
            hi == IF rnk[ra] < rnk[rb] THEN rb ELSE ra
            lo == IF rnk[ra] < rnk[rb] THEN ra ELSE rb
        IN  IF ra = rb THEN [merged |-> FALSE, parent |-> fb[2], rnk |-> rnk]
            ELSE [merged |-> TRUE,
                  parent |-> [fb[2] EXCEPT ![lo] = hi],
                  rnk |-> IF rnk[hi] = rnk[lo] THEN [rnk EXCEPT ![hi] = @ + 1]
                          ELSE rnk]))

RECURSIVE kruskal(_, _, _, _, _, _, _)
\* the loop over the sorted edges from edges[i] on: <<total, used>>
kruskal(n, edges, i, parent, rnk, total, used) ==
    IF i > Len(edges) THEN <<total, used>>
    ELSE With(dsu_unite(parent, rnk, edges[i].u, edges[i].v), LAMBDA un :
             IF ~un.merged
                THEN kruskal(n, edges, i + 1, un.parent, un.rnk, total, used)
             ELSE IF used + 1 = n - 1 THEN <<total + edges[i].w, used + 1>>
             ELSE kruskal(n, edges, i + 1, un.parent, un.rnk,
                          total + edges[i].w, used + 1))

\* AlgoMstWeight::run with the edges arranged as `edges` by the sort
mst_text(g, edges) ==
    IF g.directed THEN <<"MST undefined for directed graphs.">>
    ELSE IF g.n = 0 THEN <<"MST weight: 0 (empty graph).">>
    ELSE With(kruskal(g.n, edges, 1, [x \in 0..(g.n - 1) |-> x],
                      [x \in 0..(g.n - 1) |-> 0], 0, 0), LAMBDA r :
             IF r[2] # g.n - 1 THEN <<"Graph is disconnected; MST does not exist.">>
             ELSE <<"MST weight: ", r[1], " (edges used: ", r[2], ").">>)

\* AlgoMstWeight::run
AlgoMstWeight(g) == With(mst_sort(mst_edges(g, 0)), LAMBDA edges : mst_text(g, edges))

\* ---- 2) AlgoSccCount: Kosaraju
RECURSIVE rev_adj(_, _, _)
\* Graph::reversed for a directed graph: the lists built for vertices u..n-1
rev_adj(g, u, adj) ==
    IF u >= g.n THEN adj
    ELSE LET RECURSIVE put(_, _)
             put(i, a) ==
                 IF i > Len(g.adj[u]) THEN a
                 ELSE put(i + 1, [a EXCEPT ![g.adj[u][i][1]] =
                                     Append(@, <<u, g.adj[u][i][2]>>)])
         IN  rev_adj(g, u + 1, put(1, adj))

\* a reversal that hands back the graph as it is
reversedNot(g) == g

\* Graph::reversed
reversed(g) ==
    IF g.directed THEN [g EXCEPT !.adj = rev_adj(g, 0, [u \in 0..(g.n - 1) |-> <<>>])]
    ELSE g

RECURSIVE dfs1(_, _, _)
RECURSIVE dfs1_adj(_, _, _, _)
\* dfs1 from u: st holds seen (the set of vertices flagged) and order
dfs1(g, u, st) ==
    With(dfs1_adj(g, u, 1, [st EXCEPT !.seen = @ \cup {u}]), LAMBDA s :
        [s EXCEPT !.order = Append(@, u)])

\* the loop of dfs1 over the adjacency list of u from its i-th entry on
dfs1_adj(g, u, i, st) ==
    IF i > Len(g.adj[u]) THEN st
    ELSE With(IF g.adj[u][i][1] \in st.seen THEN st ELSE dfs1(g, g.adj[u][i][1], st),
              LAMBDA s : dfs1_adj(g, u, i + 1, s))

RECURSIVE scc_first_pass(_, _, _)
\* for u = 0..n-1: dfs1 from every vertex not yet seen
scc_first_pass(g, u, st) ==
    IF u >= g.n THEN st
    ELSE With(IF u \in st.seen THEN st ELSE dfs1(g, u, st),
              LAMBDA s : scc_first_pass(g, u + 1, s))

RECURSIVE dfs2(_, _, _)
RECURSIVE dfs2_adj(_, _, _, _)
\* dfs2 from u on the reversed graph: the set of vertices flagged
dfs2(gr, u, seen) == dfs2_adj(gr, u, 1, seen \cup {u})

\* the loop of dfs2 over the adjacency list of u from its i-th entry on
dfs2_adj(gr, u, i, seen) ==
    IF i > Len(gr.adj[u]) THEN seen
    ELSE With(IF gr.adj[u][i][1] \in seen THEN seen ELSE dfs2(gr, gr.adj[u][i][1], seen),
              LAMBDA s : dfs2_adj(gr, u, i + 1, s))

RECURSIVE scc_second_pass(_, _, _, _, _)
\* for i = 0..n-1: u = order[n-1-i]; a vertex not yet seen starts a component
scc_second_pass(gr, order, i, seen, comps) ==
    IF i >= gr.n THEN comps
    ELSE IF order[gr.n - i] \in seen
         THEN scc_second_pass(gr, order, i + 1, seen, comps)
    ELSE With(dfs2(gr, order[gr.n - i], seen),
              LAMBDA s : scc_second_pass(gr, order, i + 1, s, comps + 1))

\* AlgoSccCount::run
AlgoSccCount(g) ==
    IF g.n = 0 THEN <<"SCC count: 0 (empty graph).">>
    ELSE With(scc_first_pass(g, 0, [seen |-> {}, order |-> <<>>]), LAMBDA st :
         With(reversed(g), LAMBDA gr :
             <<"SCC count: ", scc_second_pass(gr, st.order, 0, {}, 0), ".">>))

\* ---- 3) AlgoMaxFlow: Edmonds-Karp from vertex 0 to vertex n-1
RECURSIVE flow_cap(_, _, _)
\* the capacity matrix: every entry (v, w) of adj(u) adds w, or 1 when w is
\* 0, to cap[u][v]; the lists of vertices u..n-1
flow_cap(g, u, cap) ==
    IF u >= g.n THEN cap
    ELSE LET RECURSIVE put(_, _)
             put(i, c) ==
                 IF i > Len(g.adj[u]) THEN c
                 ELSE put(i + 1, [c EXCEPT ![u][g.adj[u][i][1]] =
                                     @ + (IF g.adj[u][i][2] # 0 THEN g.adj[u][i][2]
                                          ELSE 1)])
         IN  flow_cap(g, u + 1, put(1, cap))

RECURSIVE bfs_scan(_, _, _, _, _)
\* the for loop over v = v0..n-1 for the vertex u popped: st holds the queue
\* q and parent; reaching the sink t = n-1 breaks out of the loop
bfs_scan(cap, n, u, v, st) ==
    IF v >= n THEN st
    ELSE IF st.parent[v] = -1 /\ cap[u][v] > 0
         THEN With([q |-> Append(st.q, v), parent |-> [st.parent EXCEPT ![v] = u]],
                   LAMBDA s : IF v = n - 1 THEN s ELSE bfs_scan(cap, n, u, v + 1, s))
         ELSE bfs_scan(cap, n, u, v + 1, st)

RECURSIVE bfs(_, _, _)
\* while (!q.empty() && parent[t] == -1): parent at the end
bfs(cap, n, st) ==
    IF st.q = <<>> \/ st.parent[n - 1] # -1 THEN st.parent
    ELSE With(bfs_scan(cap, n, Head(st.q), 0, [st EXCEPT !.q = Tail(@)]),
              LAMBDA s : bfs(cap, n, s))

\* the residual capacity of the arc into v, the rest of the walk left out
bottleneckOfLastArc(cap, parent, v, add) == IF v = 0 THEN add ELSE cap[parent[v]][v]

RECURSIVE bottleneck(_, _, _, _)
\* the walk back from v to the source: the least residual capacity on it
\* (add = -1: still LLONG_MAX)
bottleneck(cap, parent, v, add) ==
    IF v = 0 THEN add
    ELSE With(IF add = -1 \/ cap[parent[v]][v] < add THEN cap[parent[v]][v] ELSE add,
              LAMBDA a : bottleneck(cap, parent, parent[v], a))

RECURSIVE augment(_, _, _, _)
\* the walk back from v to the source: the residual capacities updated
augment(cap, parent, v, add) ==
    IF v = 0 THEN cap
    ELSE With([[cap EXCEPT ![parent[v]][v] = @ - add] EXCEPT ![v][parent[v]] = @ + add],
              LAMBDA c : augment(c, parent, parent[v], add))

RECURSIVE edmonds_karp(_, _, _)
\* while (true): one BFS and one augmentation per round, until the sink is
\* not reached
edmonds_karp(cap, n, flow) ==
    With(bfs(cap, n, [q |-> <<0>>,
                      parent |-> [v \in 0..(n - 1) |-> IF v = 0 THEN 0 ELSE -1]]),
         LAMBDA parent :
            IF parent[n - 1] = -1 THEN flow
            ELSE With(bottleneck(cap, parent, n - 1, -1), LAMBDA add :
                 With(augment(cap, parent, n - 1, add), LAMBDA c :
                     edmonds_karp(c, n, flow + add))))

\* AlgoMaxFlow::run
AlgoMaxFlow(g) ==
    IF g.n < 2 THEN <<"Max flow: 0 (need at least two vertices).">>
    ELSE With(flow_cap(g, 0, [u \in 0..(g.n - 1) |-> [v \in 0..(g.n - 1) |-> 0]]),
              LAMBDA cap :
                 <<"Max flow (0 -> ", g.n - 1, "): ", edmonds_karp(cap, g.n, 0), ".">>)

\* ---- 4) AlgoHamilton: backtracking from vertex 0
\* the adjacency matrix A as the set of pairs (u, v) with A[u][v] = 1
ham_matrix(g) ==
    UNION {UNION {{<<u, g.adj[u][i][1]>>} \cup
                  (IF g.directed THEN {} ELSE {<<g.adj[u][i][1], u>>}) :
                  i \in 1..Len(g.adj[u])} : u \in 0..(g.n - 1)}

RECURSIVE ham_dfs(_, _, _, _)
RECURSIVE ham_try(_, _, _, _, _)
\* a dfs that takes the path for a circuit once it holds every vertex
ham_dfsNeverCloses(A, n, u, st) ==
    IF st.found THEN st
    ELSE IF Len(st.path) = n
         THEN [st EXCEPT !.path = Append(@, 0), !.found = TRUE]
    ELSE ham_try(A, n, u, 0, st)

\* dfs(u): st holds path, used (the set of vertices flagged) and found
ham_dfs(A, n, u, st) ==
    IF st.found THEN st
    ELSE IF Len(st.path) = n
         THEN IF <<u, 0>> \in A
                 THEN [st EXCEPT !.path = Append(@, 0), !.found = TRUE]
                 ELSE st
    ELSE ham_try(A, n, u, 0, st)

\* the for loop of dfs(u) over v = v0..n-1
ham_try(A, n, u, v, st) ==
    IF v >= n THEN st
    ELSE IF v \notin st.used /\ <<u, v>> \in A
         THEN With(ham_dfs(A, n, v, [st EXCEPT !.used = @ \cup {v},
                                              !.path = Append(@, v)]),
                   LAMBDA s :
                      IF s.found THEN s
                      ELSE With([s EXCEPT !.path = SubSeq(@, 1, Len(@) - 1),
                                          !.used = @ \ {v}],
                                LAMBDA b : ham_try(A, n, u, v + 1, b)))
         ELSE ham_try(A, n, u, v + 1, st)

RECURSIVE ham_arrows(_, _)
\* path[i..] printed with " -> " between the vertices
ham_arrows(path, i) ==
    IF i > Len(path) THEN <<>>
    ELSE IF i = Len(path) THEN <<path[i]>>
    ELSE <<path[i], " -> ">> \o ham_arrows(path, i + 1)

\* the state of the search when dfs(start) returns
ham_search(g) ==
    With(ham_matrix(g), LAMBDA A :
        ham_dfs(A, g.n, 0, [path |-> <<0>>, used |-> {0}, found |-> FALSE]))

\* AlgoHamilton::run
AlgoHamilton(g) ==
    IF g.n = 0 THEN <<"Hamiltonian circuit: trivial (empty).">>
    ELSE IF g.n = 1 THEN <<"Hamiltonian circuit: ", 0, " -> ", 0>>
    ELSE With(ham_search(g), LAMBDA s :
             IF ~s.found THEN <<"No Hamiltonian circuit.">>
             ELSE <<"Hamiltonian circuit: ">> \o ham_arrows(s.path, 1))

\* AlgorithmFactory::create(name)->run(g), the name compared in lower case
AlgorithmRun(name, g) ==
    CASE name = "MST" -> AlgoMstWeight(g)
      [] name = "SCC" -> AlgoSccCount(g)
      [] name = "MAXFLOW" -> AlgoMaxFlow(g)
      [] name = "HAMILTON" -> AlgoHamilton(g)

\* ----------------------------------------------------------- Euler.cpp
\* Graph::outDegree and Graph::inDegree
outDegree(g) == [u \in 0..(g.n - 1) |-> Len(g.adj[u])]

inDegree(g) ==
    [v \in 0..(g.n - 1) |->
        Cardinality(UNION {{<<u, i>> : i \in {j \in 1..Len(g.adj[u]) : g.adj[u][j][1] = v}} :
                           u \in 0..(g.n - 1)})]

RECURSIVE dfs_undirected(_, _, _)
RECURSIVE dfs_undirected_from(_, _, _, _)
\* dfs_undirected(u, g, seen): the vertices seen when it returns
dfs_undirected(u, g, seen) == dfs_undirected_from(u, g, 1, seen \cup {u})

\* its loop over adj(u) from the i-th entry on
dfs_undirected_from(u, g, i, seen) ==
    IF i > Len(g.adj[u]) THEN seen
    ELSE dfs_undirected_from(u, g, i + 1,
            IF g.adj[u][i][1] \in seen THEN seen
            ELSE dfs_undirected(g.adj[u][i][1], g, seen))

RECURSIVE dfs_directed(_, _, _)
RECURSIVE dfs_directed_from(_, _, _, _)
\* dfs_directed(u, g, seen): the vertices seen along the arcs
dfs_directed(u, g, seen) == dfs_directed_from(u, g, 1, seen \cup {u})

dfs_directed_from(u, g, i, seen) ==
    IF i > Len(g.adj[u]) THEN seen
    ELSE dfs_directed_from(u, g, i + 1,
            IF g.adj[u][i][1] \in seen THEN seen
            ELSE dfs_directed(g.adj[u][i][1], g, seen))

\* the first vertex with a non-empty adjacency list, n when there is none
euler_start(g) ==
    IF \A u \in 0..(g.n - 1) : g.adj[u] = <<>> THEN g.n
    ELSE CHOOSE u \in 0..(g.n - 1) :
            /\ g.adj[u] # <<>>
            /\ \A t \in 0..(u - 1) : g.adj[t] = <<>>

RECURSIVE euler_edge_refs(_, _, _, _)
\* the working adjacency of euler_undirected: scanning adj(u) from its i-th
\* entry on, every entry (u, v) with u <= v gets the next edge id and is
\* appended to the lists of u and of v; w holds the lists and eid so far
euler_edge_refs(g, u, i, w) ==
    IF u >= g.n THEN w
    ELSE IF i > Len(g.adj[u]) THEN euler_edge_refs(g, u + 1, 1, w)
    ELSE LET v == g.adj[u][i][1]
             a1 == [w.adj EXCEPT ![u] = Append(@, [to |-> v, id |-> w.eid])]
             a2 == IF u # v THEN [a1 EXCEPT ![v] = Append(@, [to |-> u, id |-> w.eid])]
                   ELSE a1
         IN  IF u <= v
                THEN euler_edge_refs(g, u, i + 1, [adj |-> a2, eid |-> w.eid + 1])
                ELSE euler_edge_refs(g, u, i + 1, w)

RECURSIVE euler_prune(_, _)
\* while (!adj[u].empty() && used[adj[u].back().id]) adj[u].pop_back()
euler_prune(lst, used) ==
    IF lst # <<>> /\ lst[Len(lst)].id \in used
       THEN euler_prune(SubSeq(lst, 1, Len(lst) - 1), used)
       ELSE lst

RECURSIVE hierholzer_undirected(_, _, _, _)
\* the while loop of euler_undirected: st is the stack (top last), used the
\* ids flagged, circuit the vertices recorded; the result is the circuit
hierholzer_undirected(st, adj, used, circuit) ==
    IF st = <<>> THEN circuit
    ELSE LET u == st[Len(st)]
             lst == euler_prune(adj[u], used)
         IN  IF lst # <<>>
                THEN hierholzer_undirected(Append(st, lst[Len(lst)].to),
                                           [adj EXCEPT ![u] = lst],
                                           used \cup {lst[Len(lst)].id}, circuit)
                ELSE hierholzer_undirected(SubSeq(st, 1, Len(st) - 1),
                                           [adj EXCEPT ![u] = lst],
                                           used, Append(circuit, u))

RECURSIVE euler_arrows(_, _)
\* circuit[i..] printed with " -> " between the vertices
euler_arrows(circuit, i) ==
    IF i > Len(circuit) THEN <<>>
    ELSE IF i = Len(circuit) THEN <<circuit[i]>>
    ELSE <<circuit[i], " -> ">> \o euler_arrows(circuit, i + 1)

\* euler_undirected
euler_undirected(g) ==
    IF \E u \in 0..(g.n - 1) : Len(g.adj[u]) % 2 = 1
       THEN <<"No Euler circuit: at least one vertex has odd degree.">>
    ELSE IF euler_start(g) = g.n
       THEN <<"Graph has no edges; trivial Euler circuit at vertex 0.">>
    ELSE IF \E u \in 0..(g.n - 1) :
               u \notin dfs_undirected(euler_start(g), g, {}) /\ g.adj[u] # <<>>
       THEN <<"No Euler circuit: graph is disconnected on non-isolated vertices.">>
    ELSE LET w == euler_edge_refs(g, 0, 1,
                     [adj |-> [u \in 0..(g.n - 1) |-> <<>>], eid |-> 0])
             circuit == hierholzer_undirected(<<euler_start(g)>>, w.adj, {}, <<>>)
         IN  IF Len(circuit) # w.eid + 1
                THEN <<"No Euler circuit: not all edges were traversed (sanity check failed).">>
                ELSE <<"Euler circuit: ">> \o euler_arrows(circuit, 1)

RECURSIVE hierholzer_directed(_, _, _)
\* the while loop of euler_directed: the last arc of adj[u] is consumed, a
\* vertex without arcs left is recorded and popped
hierholzer_directed(st, adj, circuit) ==
    IF st = <<>> THEN circuit
    ELSE LET u == st[Len(st)]
         IN  IF adj[u] # <<>>
                THEN hierholzer_directed(Append(st, adj[u][Len(adj[u])]),
                        [adj EXCEPT ![u] = SubSeq(@, 1, Len(@) - 1)], circuit)
                ELSE hierholzer_directed(SubSeq(st, 1, Len(st) - 1), adj,
                                         Append(circuit, u))

RECURSIVE euler_sum(_, _)
\* for (auto x : out) arcs += x, from vertex u on
euler_sum(out, u) ==
    IF u \notin DOMAIN out THEN 0 ELSE out[u] + euler_sum(out, u + 1)

\* euler_directed
euler_directed(g) ==
    IF \E u \in 0..(g.n - 1) : inDegree(g)[u] # outDegree(g)[u]
       THEN <<"No Euler circuit (directed): in-degree != out-degree at some vertex.">>
    ELSE IF euler_start(g) = g.n
       THEN <<"Graph has no edges; trivial Euler circuit at vertex 0.">>
    ELSE IF \E u \in 0..(g.n - 1) :
               /\ inDegree(g)[u] + outDegree(g)[u] # 0
               /\ \/ u \notin dfs_directed(euler_start(g), g, {})
                  \/ u \notin dfs_directed(euler_start(g), reversed(g), {})
       THEN <<"No Euler circuit (directed): graph is not strongly connected on non-isolated vertices.">>
    ELSE LET circuit == hierholzer_directed(<<euler_start(g)>>,
                           [u \in 0..(g.n - 1) |->
                               [i \in 1..Len(g.adj[u]) |-> g.adj[u][i][1]]], <<>>)
         IN  IF Len(circuit) # euler_sum(outDegree(g), 0) + 1
                THEN <<"No Euler circuit (directed): not all arcs were traversed (sanity check failed).">>
                ELSE <<"Euler circuit (directed): ">> \o euler_arrows(circuit, 1)

\* Euler::run
EulerRun(g) == IF ~g.directed THEN euler_undirected(g) ELSE euler_directed(g)

\* ------------------------------------------- the Graph class on its own
\* Graph::removeOneArc on the list of u: the first entry whose neighbour is v
\* is erased
removeOneArc(lst, v) ==
    IF \E i \in 1..Len(lst) : lst[i][1] = v
       THEN LET k == CHOOSE i \in 1..Len(lst) :
                        lst[i][1] = v /\ \A j \in 1..(i - 1) : lst[j][1] # v
            IN  [changed |-> TRUE,
                 lst |-> SubSeq(lst, 1, k - 1) \o SubSeq(lst, k + 1, Len(lst))]
       ELSE [changed |-> FALSE, lst |-> lst]

\* a removeEdge that erases the arc u->v only
removeEdgeOneArc(g, u, v) ==
    LET r1 == removeOneArc(g.adj[u], v)
    IN  [changed |-> r1.changed,
         g |-> [g EXCEPT !.adj = [g.adj EXCEPT ![u] = r1.lst],
                         !.m = IF r1.changed /\ @ > 0 THEN @ - 1 ELSE @]]

\* Graph::removeEdge for endpoints in range: the value returned and the graph
\* afterwards
removeEdge(g, u, v) ==
    LET r1 == removeOneArc(g.adj[u], v)
        a1 == [g.adj EXCEPT ![u] = r1.lst]
        r2 == removeOneArc(a1[v], u)
        a2 == IF ~g.directed THEN [a1 EXCEPT ![v] = r2.lst] ELSE a1
        changed == IF ~g.directed THEN r2.changed \/ r1.changed ELSE r1.changed
    IN  [changed |-> changed,
         g |-> [g EXCEPT !.adj = a2,
                         !.m = IF changed /\ @ > 0 THEN @ - 1 ELSE @]]

\* no graph is under test
GrIdle ==
    /\ gr_g = NewGraph(0, FALSE)
    /\ gr_last = [op |-> "none", u |-> 0, v |-> 0, w |-> 0, ret |-> "none"]
    /\ gr_text = <<>>

\* Graph g(n, kind) with the default Options
GrInit ==
    /\ \E n \in 1..MaxV, directed \in BOOLEAN : gr_g = NewGraph(n, directed)
    /\ gr_last = [op |-> "none", u |-> 0, v |-> 0, w |-> 0, ret |-> "none"]
    /\ gr_text = <<>>

\* g.addEdge(u, v, w) for vertices in range: it throws invalid_argument for
\* a self-loop and returns otherwise
GrAddEdge(u, v, w) ==
    /\ gr_text = <<>>
    /\ gr_g.m < MaxEdges
    /\ gr_g' = addEdge(gr_g, u, v, w)
    /\ gr_last' = [op |-> "addEdge", u |-> u, v |-> v, w |-> w,
                   ret |-> IF u = v THEN "invalid_argument" ELSE "void"]
    /\ UNCHANGED gr_text
    /\ UNCHANGED <<mbVars, plVars, lfVars, shVars, hcVars>>

\* g.removeEdge(u, v) for vertices in range
GrRemoveEdge(u, v) ==
    /\ gr_text = <<>>
    /\ gr_g' = removeEdge(gr_g, u, v).g
    /\ gr_last' = [op |-> "removeEdge", u |-> u, v |-> v, w |-> 0,
                   ret |-> IF removeEdge(gr_g, u, v).changed THEN "true" ELSE "false"]
    /\ UNCHANGED gr_text
    /\ UNCHANGED <<mbVars, plVars, lfVars, shVars, hcVars>>

\* Euler e; e.run(g) on the graph built so far
GrEuler ==
    /\ gr_text = <<>>
    /\ gr_text' = EulerRun(gr_g)
    /\ gr_last' = [op |-> "run", u |-> 0, v |-> 0, w |-> 0, ret |-> "text"]
    /\ UNCHANGED gr_g
    /\ UNCHANGED <<mbVars, plVars, lfVars, shVars, hcVars>>

GrNext ==
    \/ \E u, v \in 0..(gr_g.n - 1), w \in 1..MaxWeight : GrAddEdge(u, v, w)
    \/ \E u, v \in 0..(gr_g.n - 1) : GrRemoveEdge(u, v)
    \/ GrEuler

\* ------------------------------------------------------- algorithms
\* The names Dispatch fans out to, in the order of its pushes.
AlgoNames == <<"MST", "SCC", "MAXFLOW", "HAMILTON">>
AlgoSet == {AlgoNames[i] : i \in 1..Len(AlgoNames)}

\* AlgoWorker::run: alg ? alg->run(*t->g) : "(unavailable)". The text of a
\* strategy is a function of the algorithm and of the graph alone.
RunAlgorithm(name, g) ==
    IF name \in AlgoSet THEN AlgorithmRun(name, g) ELSE <<"(unavailable)">>

\* ----------------------------------------------------------- messages
\* a ClientMsg that always carries RequestId 1
ClientMsgSameId(fd, line, id) == [client_fd |-> fd, line |-> line, id |-> 1]

ClientMsg(fd, line, id) == [client_fd |-> fd, line |-> line, id |-> id]
GraphJob(fd, g, id) == [client_fd |-> fd, g |-> g, label |-> label(g), id |-> id]
AlgoTask(gj, name) ==
    [client_fd |-> gj.client_fd, g |-> gj.g, algoName |-> name,
     label |-> gj.label, id |-> gj.id]
BeginResult(gj) ==
    [client_fd |-> gj.client_fd, algoName |-> "BEGIN", text |-> <<>>,
     label |-> gj.label, id |-> gj.id]
AlgoResult(t) ==
    [client_fd |-> t.client_fd, algoName |-> t.algoName,
     text |-> RunAlgorithm(t.algoName, t.g), label |-> t.label, id |-> t.id]

\* a payload with the SCC line ahead of the MST line
PayloadSccFirst(lbl, mst, scc, maxflow, hamilton) ==
    << <<"Graph: ", lbl>>, <<"SCC: ", scc>>, <<"MST: ", mst>>,
       <<"MAXFLOW: ", maxflow>>, <<"HAMILTON: ", hamilton>> >>

\* the payload the aggregator formats: the label line and the four lines
Payload(lbl, mst, scc, maxflow, hamilton) ==
    << <<"Graph: ", lbl>>, <<"MST: ", mst>>, <<"SCC: ", scc>>,
       <<"MAXFLOW: ", maxflow>>, <<"HAMILTON: ", hamilton>> >>

\* ------------------------------------------------------------ sockets
\* A connection: the descriptor accept() gave it, the line the client sent
\* (<<>> when recv fails), the RequestId main() gave it (0: none), whether the
\* server still holds it open, and what the server has written to it.
NewConn(fd, line, id) ==
    [fd |-> fd, line |-> line, id |-> id, open |-> TRUE, out |-> <<>>]

OpenFds(cs) == {cs[k].fd : k \in {j \in 1..Len(cs) : cs[j].open}}

\* accept(): the lowest descriptor not in use
NewFd(cs) == CHOOSE f \in 1..(Len(cs) + 1) :
                /\ f \notin OpenFds(cs)
                /\ \A h \in 1..(f - 1) : h \in OpenFds(cs)

\* send_all(fd, data): reaches the connection that holds fd open, if any
SockSend(cs, fd, data) ==
    [k \in 1..Len(cs) |->
        IF cs[k].open /\ cs[k].fd = fd THEN [cs[k] EXCEPT !.out = Append(@, data)]
        ELSE cs[k]]

\* ::shutdown(fd, SHUT_RDWR); ::close(fd)
SockClose(cs, fd) ==
    [k \in 1..Len(cs) |->
        IF cs[k].open /\ cs[k].fd = fd THEN [cs[k] EXCEPT !.open = FALSE]
        ELSE cs[k]]

\* ------------------------------------- Leader/Followers request handling
\* parse_manual_all of the Leader/Followers server
lf_parse_manual_all(line) ==
    IF line.kw1 # "alg" \/ line.kw2 # "all" \/ line.mode # "manual"
       THEN BuildError(NewGraph(0, FALSE),
                       <<"Expected: ALG ALL MANUAL <V> : u-v u-v ... [--directed]">>)
    ELSE IF line.V = 0 \/ ~line.colon
       THEN BuildError(NewGraph(0, FALSE),
                       <<"Format: ALG ALL MANUAL <V> : u-v u-v ... [--directed]">>)
    ELSE manual_edges(line.toks, 1, NewGraph(line.V, line.directed), {},
                      "Invalid endpoints in token: ")

\* build_graph_from_command of the Leader/Followers server
lf_build_graph_from_command(line) ==
    IF line.kw1 # "alg" \/ line.kw2 # "all"
       THEN BuildUnknown
    ELSE IF line.mode = "random"
       THEN IF line.V = 0
               THEN BuildError(NewGraph(0, FALSE), <<"V must be > 0">>)
               ELSE [kind |-> "random", g |-> NewGraph(line.V, line.directed), err |-> <<>>]
    ELSE IF line.mode = "manual" THEN lf_parse_manual_all(line)
    ELSE BuildError(NewGraph(0, FALSE), <<"Bad mode. Use RANDOM or MANUAL.">>)

\* run_all_algorithms: the label line, then one line per algorithm, serially
run_all_algorithms(g) ==
    << <<"Graph: ", label(g)>>,
       <<"MST: ", RunAlgorithm("MST", g)>>,
       <<"SCC: ", RunAlgorithm("SCC", g)>>,
       <<"MAXFLOW: ", RunAlgorithm("MAXFLOW", g)>>,
       <<"HAMILTON: ", RunAlgorithm("HAMILTON", g)>> >>

\* what handle_client writes to the connection for a MANUAL line or a line
\* that is rejected: the one send_all it makes
handle_client(line) ==
    LET b == lf_build_graph_from_command(line)
    IN  IF b.kind = "error" THEN << ErrorReply(b) >>
        ELSE << run_all_algorithms(b.g) >>

\* --------------------------------------- one graph, four strategies
\* no graph is under construction or shared
ShIdle ==
    /\ sh_g = NewGraph(0, FALSE)
    /\ sh_pc = "idle"
    /\ sh_built = NewGraph(0, FALSE)
    /\ sh_text = [a \in AlgoSet |-> <<>>]

\* Graph g(n, kind, opts) with self-loops and multi-edges disallowed
ShInit ==
    /\ \E n \in 1..MaxV, directed \in BOOLEAN : sh_g = NewGraph(n, directed)
    /\ sh_pc = "build"
    /\ sh_built = NewGraph(0, FALSE)
    /\ sh_text = [a \in AlgoSet |-> <<>>]

\* g.addEdge(u, v, w) for two different vertices in range; the weight is 1
\* in the servers, any number for other callers (0: "unweighted")
ShAddEdge(u, v, w) ==
    /\ sh_pc = "build"
    /\ sh_g.m < MaxEdges
    /\ u # v
    /\ sh_g' = addEdge(sh_g, u, v, w)
    /\ UNCHANGED <<sh_pc, sh_built, sh_text>>
    /\ UNCHANGED <<mbVars, plVars, lfVars, hcVars, grVars>>

\* std::make_shared<Graph>(std::move(g)): from here on the graph is reached
\* through the shared pointer of the GraphJob and of its four AlgoTasks
ShShare ==
    /\ sh_pc = "build"
    /\ sh_pc' = "shared"
    /\ sh_built' = sh_g
    /\ UNCHANGED <<sh_g, sh_text>>
    /\ UNCHANGED <<mbVars, plVars, lfVars, hcVars, grVars>>

\* a run() that leaves the graph reversed behind it
GraphAfterRunReversed(name, g) == IF name = "SCC" THEN reversed(g) ELSE g

\* the graph after IGraphAlgorithm::run(const Graph& g) of the strategy
\* `name`: run() takes the graph by const reference and calls only its const
\* members n(), m(), directed(), adj() and reversed(), which builds a new Graph
GraphAfterRun(name, g) == g

\* AlgoWorker::run of the worker of algorithm a: alg->run(*t->g) on the
\* shared graph, whenever the scheduler lets it
ShRun(a) ==
    /\ sh_pc = "shared"
    /\ sh_text[a] = <<>>
    /\ sh_text' = [sh_text EXCEPT ![a] = RunAlgorithm(a, sh_g)]
    /\ sh_g' = GraphAfterRun(a, sh_g)
    /\ UNCHANGED <<sh_pc, sh_built>>
    /\ UNCHANGED <<mbVars, plVars, lfVars, hcVars, grVars>>

ShNext ==
    \/ \E u, v \in 0..(sh_g.n - 1), w \in 0..MaxWeight : ShAddEdge(u, v, w)
    \/ ShShare
    \/ \E a \in AlgoSet : ShRun(a)

\* -------------------------------------------------------- Pipeline server
\* the request lines clients send to the Pipeline server
PipelineLines ==
    { ManualLine(2, <<Tok(0, 1)>>, FALSE),
      ManualLine(2, <<Tok(0, 1)>>, TRUE),
      ManualLine(2, <<Tok(0, 2)>>, FALSE) }

At(p) == [at |-> p, i |-> 0]

\* a loop that goes round again whatever g_stop holds
AfterIterationGoesOn == "run"

\* Every stage thread runs  while (!g_stop.load()) { pop; handle }.  The load
\* touches nothing but g_stop, so until the thread next acts it makes no
\* difference whether it has made the load already: a thread is "run" from
\* the end of one iteration up to the return of its next pop(), and the
\* load's outcome is settled when it acts. If g_stop was already set when the
\* iteration ended the load can only read true, and the thread leaves ("done");
\* otherwise it reads false when it was made before the flag was set (the
\* thread goes on to pop) and true when it was made after (the thread leaves).
\* The accept loop of main() is treated the same way.
AfterIteration == IF g_stop THEN "done" ELSE "run"

\* main() once the mailboxes and the eight stage threads are constructed
PlInit ==
    /\ g_stop = FALSE
    /\ g_listen_fd = 0
    /\ sig_pc = "none"
    /\ q_in = NewQueue
    /\ q_graph = NewQueue
    /\ q_alg = [a \in AlgoSet |-> NewQueue]
    /\ q_agg_in = NewQueue
    /\ q_send = NewQueue
    /\ main_pc = At("accept")
    /\ next_id = 1
    /\ conns = <<>>
    /\ parse_pc = "run"
    /\ parse_msg = <<>>
    /\ disp_pc = "run"
    /\ disp_job = <<>>
    /\ disp_k = 0
    /\ disp_delivered = [id \in {} |-> {}]
    /\ alg_pc = [a \in AlgoSet |-> "run"]
    /\ agg_pc = "run"
    /\ reqs_ = [id \in {} |-> <<>>]
    /\ agg_consumed = {}
    /\ send_pc = "run"

\* the Pipeline server not running, for the specifications of the other parts
PlIdle ==
    /\ g_stop = FALSE
    /\ g_listen_fd = -1
    /\ sig_pc = "none"
    /\ q_in = NewQueue
    /\ q_graph = NewQueue
    /\ q_alg = [a \in AlgoSet |-> NewQueue]
    /\ q_agg_in = NewQueue
    /\ q_send = NewQueue
    /\ main_pc = At("done")
    /\ next_id = 1
    /\ conns = <<>>
    /\ parse_pc = "done"
    /\ parse_msg = <<>>
    /\ disp_pc = "done"
    /\ disp_job = <<>>
    /\ disp_k = 0
    /\ disp_delivered = [id \in {} |-> {}]
    /\ alg_pc = [a \in AlgoSet |-> "done"]
    /\ agg_pc = "done"
    /\ reqs_ = [id \in {} |-> <<>>]
    /\ agg_consumed = {}
    /\ send_pc = "done"

\* ---- on_sigint: g_stop.store(true), then close_listen_fd()
SigStore ==
    /\ sig_pc = "none"
    /\ g_stop' = TRUE
    /\ sig_pc' = "stored"
    /\ UNCHANGED <<g_listen_fd, queueVars, mainVars, conns, parseVars, dispVars,
                   alg_pc, aggVars, send_pc, mbVars, lfVars, shVars, hcVars, grVars>>

SigClose ==
    /\ sig_pc = "stored"
    /\ g_listen_fd' = -1
    /\ sig_pc' = "done"
    /\ UNCHANGED <<g_stop, queueVars, mainVars, conns, parseVars, dispVars,
                   alg_pc, aggVars, send_pc, mbVars, lfVars, shVars, hcVars, grVars>>

\* ---- main(): the accept loop
\* accept() gives a connection, recv() reads its line, and the ClientMsg is
\* pushed with the next RequestId; then the loop head loads g_stop
MainAccept(line) ==
    /\ main_pc.at = "accept"
    /\ g_listen_fd >= 0
    /\ Len(conns) < MaxConn
    /\ conns' = Append(conns, NewConn(NewFd(conns), line, next_id))
    /\ q_in' = BQPush(q_in, ClientMsg(NewFd(conns), line, next_id))
    /\ next_id' = next_id + 1
    /\ main_pc' = IF g_stop THEN At("close_listen") ELSE At("accept")
    /\ UNCHANGED <<sigVars, q_graph, q_alg, q_agg_in, q_send, parseVars, dispVars,
                   alg_pc, aggVars, send_pc, mbVars, lfVars, shVars, hcVars, grVars>>

\* an acceptor that goes on without closing the connection recv() failed on
MainRecvFailKeepsOpen ==
    /\ main_pc.at = "accept"
    /\ g_listen_fd >= 0
    /\ Len(conns) < MaxConn
    /\ conns' = Append(conns, NewConn(NewFd(conns), <<>>, 0))
    /\ main_pc' = IF g_stop THEN At("close_listen") ELSE At("accept")
    /\ UNCHANGED <<sigVars, queueVars, next_id, parseVars, dispVars,
                   alg_pc, aggVars, send_pc, mbVars, lfVars, shVars, hcVars, grVars>>

\* accept() gives a connection but recv() returns n <= 0: close it, continue
MainRecvFail ==
    /\ main_pc.at = "accept"
    /\ g_listen_fd >= 0
    /\ Len(conns) < MaxConn
    /\ conns' = Append(conns, [NewConn(NewFd(conns), <<>>, 0) EXCEPT !.open = FALSE])
    /\ main_pc' = IF g_stop THEN At("close_listen") ELSE At("accept")
    /\ UNCHANGED <<sigVars, queueVars, next_id, parseVars, dispVars,
                   alg_pc, aggVars, send_pc, mbVars, lfVars, shVars, hcVars, grVars>>

\* accept() fails and g_stop is not set: continue, nothing has changed
MainAcceptFail ==
    /\ main_pc.at = "accept"
    /\ ~g_stop
    /\ UNCHANGED vars

\* the loop head loads g_stop = true, or accept() fails (the handler closed
\* the listening socket) and g_stop is set: leave the loop
MainStop ==
    /\ main_pc.at = "accept"
    /\ g_stop
    /\ main_pc' = At("close_listen")
    /\ UNCHANGED <<sigVars, queueVars, next_id, conns, parseVars, dispVars,
                   alg_pc, aggVars, send_pc, mbVars, lfVars, shVars, hcVars, grVars>>

\* ---- main(): shutdown
\* close_listen_fd()
MainCloseListen ==
    /\ main_pc.at = "close_listen"
    /\ g_listen_fd' = -1
    /\ main_pc' = At("close_in")
    /\ UNCHANGED <<g_stop, sig_pc, queueVars, next_id, conns, parseVars, dispVars,
                   alg_pc, aggVars, send_pc, mbVars, lfVars, shVars, hcVars, grVars>>

\* q_in.close()
MainCloseIn ==
    /\ main_pc.at = "close_in"
    /\ q_in' = BQClose(q_in)
    /\ main_pc' = At("close_graph")
    /\ UNCHANGED <<sigVars, q_graph, q_alg, q_agg_in, q_send, next_id, conns,
                   parseVars, dispVars, alg_pc, aggVars, send_pc, mbVars, lfVars, shVars, hcVars, grVars>>

\* q_graph.close()
MainCloseGraph ==
    /\ main_pc.at = "close_graph"
    /\ q_graph' = BQClose(q_graph)
    /\ main_pc' = [at |-> "close_alg", i |-> 1]
    /\ UNCHANGED <<sigVars, q_in, q_alg, q_agg_in, q_send, next_id, conns,
                   parseVars, dispVars, alg_pc, aggVars, send_pc, mbVars, lfVars, shVars, hcVars, grVars>>

\* q_mst.close(); q_scc.close(); q_max.close(); q_ham.close()
MainCloseAlg ==
    /\ main_pc.at = "close_alg"
    /\ q_alg' = [q_alg EXCEPT ![AlgoNames[main_pc.i]] = BQClose(@)]
    /\ main_pc' = IF main_pc.i < Len(AlgoNames)
                     THEN [at |-> "close_alg", i |-> main_pc.i + 1]
                     ELSE At("close_agg_in")
    /\ UNCHANGED <<sigVars, q_in, q_graph, q_agg_in, q_send, next_id, conns,
                   parseVars, dispVars, alg_pc, aggVars, send_pc, mbVars, lfVars, shVars, hcVars, grVars>>

\* q_agg_in.close()
MainCloseAggIn ==
    /\ main_pc.at = "close_agg_in"
    /\ q_agg_in' = BQClose(q_agg_in)
    /\ main_pc' = At("close_send")
    /\ UNCHANGED <<sigVars, q_in, q_graph, q_alg, q_send, next_id, conns,
                   parseVars, dispVars, alg_pc, aggVars, send_pc, mbVars, lfVars, shVars, hcVars, grVars>>

\* q_send.close()
MainCloseSend ==
    /\ main_pc.at = "close_send"
    /\ q_send' = BQClose(q_send)
    /\ main_pc' = At("join")
    /\ UNCHANGED <<sigVars, q_in, q_graph, q_alg, q_agg_in, next_id, conns,
                   parseVars, dispVars, alg_pc, aggVars, send_pc, mbVars, lfVars, shVars, hcVars, grVars>>

\* the eight join() calls: each returns once its stage thread has left run()
MainJoin ==
    /\ main_pc.at = "join"
    /\ parse_pc = "done" /\ disp_pc = "done" /\ agg_pc = "done" /\ send_pc = "done"
    /\ \A a \in AlgoSet : alg_pc[a] = "done"
    /\ main_pc' = At("done")
    /\ UNCHANGED <<sigVars, queueVars, next_id, conns, parseVars, dispVars,
                   alg_pc, aggVars, send_pc, mbVars, lfVars, shVars, hcVars, grVars>>

\* ---- Stage 1: ParserStage::run
\* the loop head loads g_stop = true
ParseStop ==
    /\ parse_pc = "run"
    /\ g_stop
    /\ parse_pc' = "done"
    /\ UNCHANGED <<sigVars, queueVars, mainVars, conns, parse_msg, dispVars,
                   alg_pc, aggVars, send_pc, mbVars, lfVars, shVars, hcVars, grVars>>

\* a parser that replies to a build failure and pushes a GraphJob all the same
ParseHandleForwards(msg) ==
    LET b == build_graph_from_command(msg.line)
    IN  /\ b.kind \in {"error", "graph"}
        /\ q_graph' = BQPush(q_graph, GraphJob(msg.client_fd, b.g, msg.id))
        /\ conns' = IF b.kind = "error"
                       THEN SockClose(SockSend(conns, msg.client_fd,
                                               ErrorReply(b)),
                                      msg.client_fd)
                       ELSE conns
        /\ parse_pc' = AfterIteration
        /\ parse_msg' = <<>>

\* what the parser does with message msg. build_graph_from_command returns
\* false: reply "Error: ..." and close the connection; it returns true: push
\* a GraphJob; it throws (std::stoi on an edge token): run() has no handler,
\* the exception leaves the thread function and std::terminate ends the
\* process; it calls make_random_graph: the thread is inside that loop.
ParseHandle(msg) ==
    LET b == build_graph_from_command(msg.line)
    IN  CASE b.kind = "error" ->
               /\ conns' = SockClose(SockSend(conns, msg.client_fd,
                                              ErrorReply(b)),
                                     msg.client_fd)
               /\ parse_pc' = AfterIteration
               /\ UNCHANGED <<q_graph, parse_msg>>
          [] b.kind = "graph" ->
               /\ q_graph' = BQPush(q_graph, GraphJob(msg.client_fd, b.g, msg.id))
               /\ parse_pc' = AfterIteration
               /\ UNCHANGED <<conns, parse_msg>>
          [] b.kind = "throw" ->
               /\ parse_pc' = "terminated"
               /\ UNCHANGED <<q_graph, conns, parse_msg>>
          [] b.kind = "random" ->
               /\ parse_pc' = "random"
               /\ parse_msg' = <<msg>>
               /\ UNCHANGED <<q_graph, conns>>

\* in_.pop() returns (the parser is the one consumer of q_in): leave on
\* nullopt, else handle the message
ParseStep ==
    /\ parse_pc = "run"
    /\ BQCanPop(q_in)
    /\ q_in' = BQPopRest(q_in)
    /\ IF BQPopValue(q_in) = <<>>
          THEN /\ parse_pc' = "done"
               /\ UNCHANGED <<q_graph, conns, parse_msg>>
          ELSE ParseHandle(BQPopValue(q_in)[1])
    /\ UNCHANGED <<sigVars, q_alg, q_agg_in, q_send, mainVars, dispVars,
                   alg_pc, aggVars, send_pc, mbVars, lfVars, shVars, hcVars, grVars>>

\* make_random_graph returns: with g_stop unset only once `added` has
\* reached E, with g_stop set at whatever it has built; then the GraphJob is
\* pushed
ParseRandomDone ==
    /\ parse_pc = "random"
    /\ LET msg == parse_msg[1]
           b   == build_graph_from_command(msg.line)
       IN  \E g \in make_random_graph(b.g, {}, 0, msg.line.E, g_stop) :
              q_graph' = BQPush(q_graph, GraphJob(msg.client_fd, g, msg.id))
    /\ parse_pc' = AfterIteration
    /\ parse_msg' = <<>>
    /\ UNCHANGED <<sigVars, q_in, q_alg, q_agg_in, q_send, mainVars, conns, dispVars,
                   alg_pc, aggVars, send_pc, mbVars, lfVars, shVars, hcVars, grVars>>

\* ---- Stage 2: DispatcherStage::run
\* the loop head loads g_stop = true
DispStop ==
    /\ disp_pc = "run"
    /\ g_stop
    /\ disp_pc' = "done"
    /\ UNCHANGED <<sigVars, queueVars, mainVars, conns, parseVars, disp_job, disp_k,
                   disp_delivered, alg_pc, aggVars, send_pc, mbVars, lfVars, shVars, hcVars, grVars>>

\* in_.pop() returns (the dispatcher is the one consumer of q_graph)
DispPop ==
    /\ disp_pc = "run"
    /\ BQCanPop(q_graph)
    /\ q_graph' = BQPopRest(q_graph)
    /\ disp_job' = BQPopValue(q_graph)
    /\ disp_pc' = IF BQPopValue(q_graph) = <<>> THEN "done" ELSE "push"
    /\ disp_k' = IF BQPopValue(q_graph) = <<>> THEN 0 ELSE 1
    /\ disp_delivered' =
          IF BQPopValue(q_graph) = <<>> THEN disp_delivered
          ELSE [id \in DOMAIN disp_delivered \cup {BQPopValue(q_graph)[1].id} |->
                   IF id = BQPopValue(q_graph)[1].id THEN {} ELSE disp_delivered[id]]
    /\ UNCHANGED <<sigVars, q_in, q_alg, q_agg_in, q_send, mainVars, conns,
                   parseVars, alg_pc, aggVars, send_pc, mbVars, lfVars, shVars, hcVars, grVars>>

\* a fan-out that announces the request after its four tasks
DispTargetsBeginLast == <<"MST", "SCC", "MAXFLOW", "HAMILTON", "BEGIN">>

\* a fan-out that leaves out the HAMILTON task
DispTargetsShort == <<"BEGIN", "MST", "SCC", "MAXFLOW">>

\* the targets of the dispatcher's five pushes, in order
DispTargets == <<"BEGIN", "MST", "SCC", "MAXFLOW", "HAMILTON">>

\* the message of the push to target t for job gj
DispMessage(gj, t) == IF t = "BEGIN" THEN BeginResult(gj) ELSE AlgoTask(gj, t)

\* the next push of the fan-out: BEGIN to the aggregator, then one AlgoTask
\* to each algorithm mailbox
DispPush ==
    /\ disp_pc = "push"
    /\ LET gj == disp_job[1]
           t  == DispTargets[disp_k]
       IN  IF t = "BEGIN"
              THEN /\ q_agg_in' = BQPush(q_agg_in, DispMessage(gj, t))
                   /\ disp_delivered' =
                         IF Len(q_agg_in'.q) > Len(q_agg_in.q)
                            THEN [disp_delivered EXCEPT ![gj.id] = @ \cup {t}]
                            ELSE disp_delivered
                   /\ UNCHANGED q_alg
              ELSE /\ q_alg' = [q_alg EXCEPT ![t] = BQPush(@, DispMessage(gj, t))]
                   /\ disp_delivered' =
                         IF Len(q_alg'[t].q) > Len(q_alg[t].q)
                            THEN [disp_delivered EXCEPT ![gj.id] = @ \cup {t}]
                            ELSE disp_delivered
                   /\ UNCHANGED q_agg_in
    /\ IF disp_k < Len(DispTargets)
          THEN /\ disp_k' = disp_k + 1
               /\ UNCHANGED <<disp_pc, disp_job>>
          ELSE /\ disp_k' = 0
               /\ disp_pc' = AfterIteration
               /\ disp_job' = <<>>
    /\ UNCHANGED <<sigVars, q_in, q_graph, q_send, mainVars, conns,
                   parseVars, alg_pc, aggVars, send_pc, mbVars, lfVars, shVars, hcVars, grVars>>

\* ---- Stage 3: AlgoWorker::run, one thread per algorithm
\* the loop head loads g_stop = true
AlgStop(a) ==
    /\ alg_pc[a] = "run"
    /\ g_stop
    /\ alg_pc' = [alg_pc EXCEPT ![a] = "done"]
    /\ UNCHANGED <<sigVars, queueVars, mainVars, conns, parseVars, dispVars,
                   aggVars, send_pc, mbVars, lfVars, shVars, hcVars, grVars>>

\* in_.pop() returns (worker a is the one consumer of its mailbox): leave on
\* nullopt, else run the strategy the task names and push its AlgoResult
AlgStep(a) ==
    /\ alg_pc[a] = "run"
    /\ BQCanPop(q_alg[a])
    /\ q_alg' = [q_alg EXCEPT ![a] = BQPopRest(@)]
    /\ IF BQPopValue(q_alg[a]) = <<>>
          THEN /\ alg_pc' = [alg_pc EXCEPT ![a] = "done"]
               /\ UNCHANGED q_agg_in
          ELSE /\ alg_pc' = [alg_pc EXCEPT ![a] = AfterIteration]
               /\ q_agg_in' = BQPush(q_agg_in, AlgoResult(BQPopValue(q_alg[a])[1]))
    /\ UNCHANGED <<sigVars, q_in, q_graph, q_send, mainVars, conns,
                   parseVars, dispVars, aggVars, send_pc, mbVars, lfVars, shVars, hcVars, grVars>>

\* ---- Stage 4: AggregatorStage::run
\* std::map::operator[] on `got`: the text recorded, or an empty string
GotText(got, name) == IF name \in DOMAIN got THEN got[name] ELSE <<>>

MapPut(f, k, v) == [x \in DOMAIN f \cup {k} |-> IF x = k THEN v ELSE f[x]]
MapErase(f, k) == [x \in DOMAIN f \ {k} |-> f[x]]

\* a default-constructed State
NewState == [client_fd |-> -1, label |-> <<>>, got |-> [n \in {} |-> <<>>]]

\* a lookup that ignores the RequestId when some request is pending
StateOfShared(rq, id) ==
    IF DOMAIN rq # {} THEN rq[CHOOSE x \in DOMAIN rq : TRUE] ELSE NewState

\* reqs_[id]: the state of the request, created when absent
StateOf(rq, id) == IF id \in DOMAIN rq THEN rq[id] ELSE NewState

\* an aggregator that counts the BEGIN sentinel as a result
AggRecordCountsBegin(st, r) ==
    [client_fd |-> r.client_fd, label |-> r.label,
     got |-> MapPut(st.got, r.algoName, r.text)]

\* the state after message r is recorded: BEGIN sets the handle and the
\* label, a result also stores its text under its algorithm name
AggRecord(st, r) ==
    IF r.algoName = "BEGIN"
       THEN [st EXCEPT !.client_fd = r.client_fd, !.label = r.label]
       ELSE [client_fd |-> r.client_fd, label |-> r.label,
             got |-> MapPut(st.got, r.algoName, r.text)]

\* an aggregator that answers after three results
AggCompleteAtThree(st, r) ==
    r.algoName # "BEGIN" /\ Cardinality(DOMAIN st.got) >= 3

\* whether message r completes the request whose state, r recorded, is st
AggComplete(st, r) ==
    r.algoName # "BEGIN" /\ Cardinality(DOMAIN st.got) = 4

\* the Response assembled from a complete state
AggResponse(st) ==
    [client_fd |-> st.client_fd,
     payload |-> Payload(st.label, GotText(st.got, "MST"), GotText(st.got, "SCC"),
                         GotText(st.got, "MAXFLOW"), GotText(st.got, "HAMILTON")),
     id |-> 0]

\* the loop head loads g_stop = true
AggStop ==
    /\ agg_pc = "run"
    /\ g_stop
    /\ agg_pc' = "done"
    /\ UNCHANGED <<sigVars, queueVars, mainVars, conns, parseVars, dispVars,
                   alg_pc, reqs_, agg_consumed, send_pc, mbVars, lfVars, shVars, hcVars, grVars>>

\* what the aggregator does with message r: record it; with the fourth
\* result push the Response and erase the state
AggHandle(r) ==
    LET st == AggRecord(StateOf(reqs_, r.id), r)
    IN  IF AggComplete(st, r)
           THEN /\ q_send' = BQPush(q_send, AggResponse(st))
                /\ reqs_' = MapErase(reqs_, r.id)
           ELSE /\ reqs_' = MapPut(reqs_, r.id, st)
                /\ UNCHANGED q_send

\* in_.pop() returns (the aggregator is the one consumer of q_agg_in): leave
\* on nullopt, else handle the message
AggStep ==
    /\ agg_pc = "run"
    /\ BQCanPop(q_agg_in)
    /\ q_agg_in' = BQPopRest(q_agg_in)
    /\ IF BQPopValue(q_agg_in) = <<>>
          THEN /\ agg_pc' = "done"
               /\ UNCHANGED <<q_send, reqs_, agg_consumed>>
          ELSE /\ agg_pc' = AfterIteration
               /\ AggHandle(BQPopValue(q_agg_in)[1])
               /\ agg_consumed' =
                     IF BQPopValue(q_agg_in)[1].algoName # "BEGIN"
                        THEN agg_consumed \cup {BQPopValue(q_agg_in)[1]}
                        ELSE agg_consumed
    /\ UNCHANGED <<sigVars, q_in, q_graph, q_alg, mainVars, conns,
                   parseVars, dispVars, alg_pc, send_pc, mbVars, lfVars, shVars, hcVars, grVars>>

\* ---- Stage 5: SenderStage::run
\* the loop head loads g_stop = true
SendStop ==
    /\ send_pc = "run"
    /\ g_stop
    /\ send_pc' = "done"
    /\ UNCHANGED <<sigVars, queueVars, mainVars, conns, parseVars, dispVars,
                   alg_pc, aggVars, mbVars, lfVars, shVars, hcVars, grVars>>

\* in_.pop() returns (the sender is the one consumer of q_send): leave on
\* nullopt, else send_all the payload, shutdown and close the connection
SendStep ==
    /\ send_pc = "run"
    /\ BQCanPop(q_send)
    /\ q_send' = BQPopRest(q_send)
    /\ IF BQPopValue(q_send) = <<>>
          THEN /\ send_pc' = "done"
               /\ UNCHANGED conns
          ELSE /\ send_pc' = AfterIteration
               /\ conns' = SockClose(SockSend(conns, BQPopValue(q_send)[1].client_fd,
                                              BQPopValue(q_send)[1].payload),
                                     BQPopValue(q_send)[1].client_fd)
    /\ UNCHANGED <<sigVars, q_in, q_graph, q_alg, q_agg_in, mainVars,
                   parseVars, dispVars, alg_pc, aggVars, mbVars, lfVars, shVars, hcVars, grVars>>

\* ---- the Pipeline server
\* the acceptor and the eight stage threads
PlRun ==
    \/ \E line \in PipelineLines : MainAccept(line)
    \/ MainRecvFail
    \/ ParseStep
    \/ DispPop
    \/ DispPush
    \/ \E a \in AlgoSet : AlgStep(a)
    \/ AggStep
    \/ SendStep

\* SIGINT, the stage loops leaving on g_stop, and the shutdown sequence of main()
PlShutdown ==
    \/ SigStore
    \/ SigClose
    \/ MainStop
    \/ ParseStop
    \/ DispStop
    \/ \E a \in AlgoSet : AlgStop(a)
    \/ AggStop
    \/ SendStop
    \/ MainCloseListen
    \/ MainCloseIn
    \/ MainCloseGraph
    \/ MainCloseAlg
    \/ MainCloseAggIn
    \/ MainCloseSend
    \/ MainJoin

\* ------------------------------------------------ Leader/Followers server
Workers == 1..NumWorkers

\* main() after signal() and setup_listen_socket(), before the pool starts
LfInit ==
    /\ lf_stop = FALSE
    /\ lf_listen_fd = 0
    /\ g_has_leader = FALSE
    /\ g_mu = 0
    /\ g_cv = {}
    /\ w_pc = [w \in Workers |-> "unstarted"]
    /\ w_cfd = [w \in Workers |-> 0]
    /\ lf_main_pc = [at |-> "spawn", i |-> 1]
    /\ lf_sig_pc = "none"
    /\ lf_accepted = 0
    /\ lf_handled = 0

\* the Leader/Followers server not running, for the specifications of the
\* other parts
LfIdle ==
    /\ lf_stop = FALSE
    /\ lf_listen_fd = -1
    /\ g_has_leader = FALSE
    /\ g_mu = 0
    /\ g_cv = {}
    /\ w_pc = [w \in Workers |-> "done"]
    /\ w_cfd = [w \in Workers |-> 0]
    /\ lf_main_pc = [at |-> "done", i |-> 0]
    /\ lf_sig_pc = "none"
    /\ lf_accepted = 0
    /\ lf_handled = 0

\* a notify_one() that wakes nobody
notify_nobody(cv, pcs) == {[cv |-> cv, pc |-> pcs]}

\* g_cv.notify_one(): the outcomes, one per blocked worker it may wake
\* (nothing changes when none waits)
notify_one(cv, pcs) ==
    IF cv = {} THEN {[cv |-> cv, pc |-> pcs]}
    ELSE {[cv |-> cv \ {w}, pc |-> [pcs EXCEPT ![w] = "woken"]] : w \in cv}

\* ---- on_sigint: g_stop.store(true); close_listen_fd(); g_cv.notify_all()
\* (the handler takes no lock)
LfSigStore ==
    /\ lf_sig_pc = "none"
    /\ lf_stop' = TRUE
    /\ lf_sig_pc' = "stored"
    /\ UNCHANGED <<lf_listen_fd, g_has_leader, g_mu, g_cv, w_pc, w_cfd, lf_main_pc,
                   lf_accepted, lf_handled, mbVars, plVars, shVars, hcVars, grVars>>

LfSigClose ==
    /\ lf_sig_pc = "stored"
    /\ lf_listen_fd' = -1
    /\ lf_sig_pc' = "closed"
    /\ UNCHANGED <<lf_stop, g_has_leader, g_mu, g_cv, w_pc, w_cfd, lf_main_pc,
                   lf_accepted, lf_handled, mbVars, plVars, shVars, hcVars, grVars>>

LfSigNotify ==
    /\ lf_sig_pc = "closed"
    /\ g_cv' = {}
    /\ w_pc' = [w \in Workers |-> IF w \in g_cv THEN "woken" ELSE w_pc[w]]
    /\ lf_sig_pc' = "done"
    /\ UNCHANGED <<lf_stop, lf_listen_fd, g_has_leader, g_mu, w_cfd, lf_main_pc,
                   lf_accepted, lf_handled, mbVars, plVars, shVars, hcVars, grVars>>

\* ---- main()
\* pool.emplace_back(worker_thread): the next worker starts to run
LfSpawn ==
    /\ lf_main_pc.at = "spawn"
    /\ w_pc' = [w_pc EXCEPT ![lf_main_pc.i] = "loop"]
    /\ lf_main_pc' = IF lf_main_pc.i < NumWorkers
                        THEN [at |-> "spawn", i |-> lf_main_pc.i + 1]
                        ELSE [at |-> "kick", i |-> 0]
    /\ UNCHANGED <<lf_stop, lf_listen_fd, g_has_leader, g_mu, g_cv, w_cfd, lf_sig_pc,
                   lf_accepted, lf_handled, mbVars, plVars, shVars, hcVars, grVars>>

\* after the pool is started: { lock_guard lk(g_mu); g_has_leader = false;
\* g_cv.notify_one(); }
LfKick ==
    /\ lf_main_pc.at = "kick"
    /\ g_mu = 0
    /\ g_has_leader' = FALSE
    /\ \E o \in notify_one(g_cv, w_pc) :
          /\ g_cv' = o.cv
          /\ w_pc' = o.pc
    /\ lf_main_pc' = [at |-> "join", i |-> 0]
    /\ UNCHANGED <<lf_stop, lf_listen_fd, g_mu, w_cfd, lf_sig_pc,
                   lf_accepted, lf_handled, mbVars, plVars, shVars, hcVars, grVars>>

\* for (auto& t : pool) t.join()
LfJoin ==
    /\ lf_main_pc.at = "join"
    /\ \A w \in Workers : w_pc[w] = "done"
    /\ lf_main_pc' = [at |-> "close_listen", i |-> 0]
    /\ UNCHANGED <<lf_stop, lf_listen_fd, g_has_leader, g_mu, g_cv, w_pc, w_cfd,
                   lf_sig_pc, lf_accepted, lf_handled, mbVars, plVars, shVars, hcVars, grVars>>

\* close_listen_fd(); return 0
LfMainClose ==
    /\ lf_main_pc.at = "close_listen"
    /\ lf_listen_fd' = -1
    /\ lf_main_pc' = [at |-> "done", i |-> 0]
    /\ UNCHANGED <<lf_stop, g_has_leader, g_mu, g_cv, w_pc, w_cfd,
                   lf_sig_pc, lf_accepted, lf_handled, mbVars, plVars, shVars, hcVars, grVars>>

\* ---- worker_thread
\* while (!g_stop.load())
WLoop(w) ==
    /\ w_pc[w] = "loop"
    /\ w_pc' = [w_pc EXCEPT ![w] = IF lf_stop THEN "done" ELSE "lock"]
    /\ UNCHANGED <<lf_stop, lf_listen_fd, g_has_leader, g_mu, g_cv, w_cfd, lf_main_pc,
                   lf_sig_pc, lf_accepted, lf_handled, mbVars, plVars, shVars, hcVars, grVars>>

\* unique_lock lk(g_mu), and the re-lock of a woken waiter
WLock(w) ==
    /\ w_pc[w] \in {"lock", "woken"}
    /\ g_mu = 0
    /\ g_mu' = w
    /\ w_pc' = [w_pc EXCEPT ![w] = "check"]
    /\ UNCHANGED <<lf_stop, lf_listen_fd, g_has_leader, g_cv, w_cfd, lf_main_pc,
                   lf_sig_pc, lf_accepted, lf_handled, mbVars, plVars, shVars, hcVars, grVars>>

\* the wait predicate: g_stop.load() || !g_has_leader
WCheck(w) ==
    /\ w_pc[w] = "check"
    /\ w_pc' = [w_pc EXCEPT ![w] = IF lf_stop \/ ~g_has_leader THEN "claim" ELSE "block"]
    /\ UNCHANGED <<lf_stop, lf_listen_fd, g_has_leader, g_mu, g_cv, w_cfd, lf_main_pc,
                   lf_sig_pc, lf_accepted, lf_handled, mbVars, plVars, shVars, hcVars, grVars>>

\* the predicate was false: the wait releases g_mu and blocks
WBlock(w) ==
    /\ w_pc[w] = "block"
    /\ g_mu' = 0
    /\ g_cv' = g_cv \cup {w}
    /\ w_pc' = [w_pc EXCEPT ![w] = "waiting"]
    /\ UNCHANGED <<lf_stop, lf_listen_fd, g_has_leader, w_cfd, lf_main_pc,
                   lf_sig_pc, lf_accepted, lf_handled, mbVars, plVars, shVars, hcVars, grVars>>

\* a spurious wakeup of the wait
WSpurious(w) ==
    /\ w_pc[w] = "waiting"
    /\ w \in g_cv
    /\ g_cv' = g_cv \ {w}
    /\ w_pc' = [w_pc EXCEPT ![w] = "woken"]
    /\ UNCHANGED <<lf_stop, lf_listen_fd, g_has_leader, g_mu, w_cfd, lf_main_pc,
                   lf_sig_pc, lf_accepted, lf_handled, mbVars, plVars, shVars, hcVars, grVars>>

\* if (g_stop.load()) return; g_has_leader = true; and the unlock at the end
\* of the block
WClaim(w) ==
    /\ w_pc[w] = "claim"
    /\ g_mu' = 0
    /\ IF lf_stop
          THEN /\ w_pc' = [w_pc EXCEPT ![w] = "done"]
               /\ UNCHANGED g_has_leader
          ELSE /\ w_pc' = [w_pc EXCEPT ![w] = "accept"]
               /\ g_has_leader' = TRUE
    /\ UNCHANGED <<lf_stop, lf_listen_fd, g_cv, w_cfd, lf_main_pc,
                   lf_sig_pc, lf_accepted, lf_handled, mbVars, plVars, shVars, hcVars, grVars>>

\* accept() returns a connection
WAccept(w) ==
    /\ w_pc[w] = "accept"
    /\ lf_listen_fd >= 0
    /\ lf_accepted < MaxLfConn
    /\ lf_accepted' = lf_accepted + 1
    /\ w_cfd' = [w_cfd EXCEPT ![w] = 1]
    /\ w_pc' = [w_pc EXCEPT ![w] = "release"]
    /\ UNCHANGED <<lf_stop, lf_listen_fd, g_has_leader, g_mu, g_cv, lf_main_pc,
                   lf_sig_pc, lf_handled, mbVars, plVars, shVars, hcVars, grVars>>

\* accept() fails: the listening socket is closed, or a transient error
WAcceptFail(w) ==
    /\ w_pc[w] = "accept"
    /\ w_cfd' = [w_cfd EXCEPT ![w] = -1]
    /\ w_pc' = [w_pc EXCEPT ![w] = "release"]
    /\ UNCHANGED <<lf_stop, lf_listen_fd, g_has_leader, g_mu, g_cv, lf_main_pc,
                   lf_sig_pc, lf_accepted, lf_handled, mbVars, plVars, shVars, hcVars, grVars>>

\* { lock_guard lk(g_mu); g_has_leader = false; g_cv.notify_one(); }
WRelease(w) ==
    /\ w_pc[w] = "release"
    /\ g_mu = 0
    /\ g_has_leader' = FALSE
    /\ \E o \in notify_one(g_cv, w_pc) :
          /\ g_cv' = o.cv
          /\ w_pc' = [o.pc EXCEPT ![w] = IF w_cfd[w] < 0 THEN "failed" ELSE "handle"]
    /\ UNCHANGED <<lf_stop, lf_listen_fd, g_mu, w_cfd, lf_main_pc,
                   lf_sig_pc, lf_accepted, lf_handled, mbVars, plVars, shVars, hcVars, grVars>>

\* if (cfd < 0) { if (g_stop.load()) return; continue; }
WFailed(w) ==
    /\ w_pc[w] = "failed"
    /\ w_pc' = [w_pc EXCEPT ![w] = IF lf_stop THEN "done" ELSE "loop"]
    /\ w_cfd' = [w_cfd EXCEPT ![w] = 0]
    /\ UNCHANGED <<lf_stop, lf_listen_fd, g_has_leader, g_mu, g_cv, lf_main_pc,
                   lf_sig_pc, lf_accepted, lf_handled, mbVars, plVars, shVars, hcVars, grVars>>

\* handle_client(cfd): serves the connection and closes it
WHandle(w) ==
    /\ w_pc[w] = "handle"
    /\ lf_handled' = lf_handled + 1
    /\ w_pc' = [w_pc EXCEPT ![w] = "loop"]
    /\ w_cfd' = [w_cfd EXCEPT ![w] = 0]
    /\ UNCHANGED <<lf_stop, lf_listen_fd, g_has_leader, g_mu, g_cv, lf_main_pc,
                   lf_sig_pc, lf_accepted, mbVars, plVars, shVars, hcVars, grVars>>

LfNext ==
    \/ LfSigStore
    \/ LfSigClose
    \/ LfSigNotify
    \/ LfSpawn
    \/ LfKick
    \/ LfJoin
    \/ LfMainClose
    \/ \E w \in Workers : WLoop(w)
    \/ \E w \in Workers : WLock(w)
    \/ \E w \in Workers : WCheck(w)
    \/ \E w \in Workers : WBlock(w)
    \/ \E w \in Workers : WSpurious(w)
    \/ \E w \in Workers : WClaim(w)
    \/ \E w \in Workers : WAccept(w)
    \/ \E w \in Workers : WAcceptFail(w)
    \/ \E w \in Workers : WRelease(w)
    \/ \E w \in Workers : WFailed(w)
    \/ \E w \in Workers : WHandle(w)


\* ------------------------------- Leader/Followers server: handle_client(cfd)
\* no connection is being served in detail
HcIdle ==
    /\ hc_pc = "idle"
    /\ hc_line = <<>>
    /\ hc_g = NewGraph(0, FALSE)
    /\ hc_out = <<>>
    /\ hc_open = FALSE

\* worker 1 has accepted the connection of a client that sends `line` and has
\* released leadership: it is about to call handle_client; main() has not
\* started the other workers yet
HcFed(line) ==
    /\ lf_stop = FALSE
    /\ lf_listen_fd = 0
    /\ g_has_leader = FALSE
    /\ g_mu = 0
    /\ g_cv = {}
    /\ w_pc = [w \in Workers |-> IF w = 1 THEN "handle" ELSE "unstarted"]
    /\ w_cfd = [w \in Workers |-> IF w = 1 THEN 1 ELSE 0]
    /\ lf_main_pc = [at |-> "spawn", i |-> 2]
    /\ lf_sig_pc = "none"
    /\ lf_accepted = 1
    /\ lf_handled = 0
    /\ hc_pc = "recv"
    /\ hc_line = line
    /\ hc_g = NewGraph(0, FALSE)
    /\ hc_out = <<>>
    /\ hc_open = TRUE

\* handle_client returns to the loop of worker_thread
HcReturn(w) ==
    /\ lf_handled' = lf_handled + 1
    /\ w_pc' = [w_pc EXCEPT ![w] = "loop"]
    /\ w_cfd' = [w_cfd EXCEPT ![w] = 0]

\* send_all(cfd, text); ::shutdown / ::close(cfd)
HcReply(text) ==
    /\ hc_out' = Append(hc_out, text)
    /\ hc_open' = FALSE
    /\ hc_pc' = "closed"

\* recv() returns n <= 0: close and return
HcRecvFail(w) ==
    /\ w_pc[w] = "handle"
    /\ hc_pc = "recv"
    /\ hc_open' = FALSE
    /\ hc_pc' = "closed"
    /\ HcReturn(w)
    /\ UNCHANGED <<hc_line, hc_g, hc_out>>
    /\ UNCHANGED <<lf_stop, lf_listen_fd, g_has_leader, g_mu, g_cv, lf_main_pc,
                   lf_sig_pc, lf_accepted, mbVars, plVars, shVars, grVars>>

\* recv() reads the line and build_graph_from_command is called. It returns
\* false: "Error: ..." is sent and the connection closed; it returns true:
\* the reply of run_all_algorithms is sent and the connection closed; it
\* throws (std::stoi on an edge token): nothing catches the exception and
\* std::terminate ends the process; it calls make_random_graph: the thread
\* is inside that loop.
HcBuild(w) ==
    /\ w_pc[w] = "handle"
    /\ hc_pc = "recv"
    /\ LET b == lf_build_graph_from_command(hc_line)
       IN  CASE b.kind = "error" ->
                  /\ HcReply(ErrorReply(b)) /\ HcReturn(w)
                  /\ UNCHANGED hc_g
             [] b.kind = "graph" ->
                  /\ hc_g' = b.g
                  /\ HcReply(run_all_algorithms(b.g)) /\ HcReturn(w)
             [] b.kind = "throw" ->
                  /\ hc_pc' = "terminated"
                  /\ UNCHANGED <<hc_g, hc_out, hc_open, lf_handled, w_pc, w_cfd>>
             [] b.kind = "random" ->
                  /\ hc_pc' = "random"
                  /\ UNCHANGED <<hc_g, hc_out, hc_open, lf_handled, w_pc, w_cfd>>
    /\ UNCHANGED hc_line
    /\ UNCHANGED <<lf_stop, lf_listen_fd, g_has_leader, g_mu, g_cv, lf_main_pc,
                   lf_sig_pc, lf_accepted, mbVars, plVars, shVars, grVars>>

\* make_random_graph returns: with g_stop unset only once `added` has
\* reached E, with g_stop set at whatever it has built; then the reply of
\* run_all_algorithms is sent and the connection closed
HcRandomDone(w) ==
    /\ w_pc[w] = "handle"
    /\ hc_pc = "random"
    /\ \E g \in make_random_graph(NewGraph(hc_line.V, hc_line.directed), {}, 0,
                                  hc_line.E, lf_stop) :
          hc_g' = g /\ HcReply(run_all_algorithms(g))
    /\ HcReturn(w)
    /\ UNCHANGED hc_line
    /\ UNCHANGED <<lf_stop, lf_listen_fd, g_has_leader, g_mu, g_cv, lf_main_pc,
                   lf_sig_pc, lf_accepted, mbVars, plVars, shVars, grVars>>

\* handle_client of the worker that serves the connection, and the signal
\* handler of its process
HcNext ==
    \/ \E w \in Workers : HcRecvFail(w)
    \/ \E w \in Workers : HcBuild(w)
    \/ \E w \in Workers : HcRandomDone(w)
    \/ hc_pc # "idle" /\ LfSigStore
    \/ hc_pc # "idle" /\ LfSigClose
    \/ hc_pc # "idle" /\ LfSigNotify
\* ------------------------------------------------------- specifications
\* the mailbox driven by its producers, consumers and closer
MailboxInit == MbInit /\ PlIdle /\ LfIdle /\ ShIdle /\ HcIdle /\ GrIdle

MailboxSpec == MailboxInit /\ [][MbNext]_vars

MailboxFairSpec == MailboxInit /\ [][MbNext]_vars /\ MbFairness

\* any number of consumers blocked inside pop() on the open, empty mailbox
WakeFed ==
    /\ mb = NewQueue
    /\ mb_waiters \in (SUBSET Consumers) \ {{}}
    /\ mb_ppc = [p \in Producers |-> "idle"]
    /\ mb_cpc = [c \in Consumers |->
                    IF c \in mb_waiters THEN "waiting" ELSE "idle"]
    /\ mb_ret = [c \in Consumers |-> NoRet]
    /\ mb_closer = [pc |-> "idle", n |-> 0]
    /\ mb_ticket = 0
    /\ mb_pushed = <<>>
    /\ mb_popped = <<>>

WakeInit == WakeFed /\ PlIdle /\ LfIdle /\ ShIdle /\ HcIdle /\ GrIdle

\* the producers push while the blocked pops go on; no other pop() is called
\* and the mailbox stays open
WakeNext ==
    \/ \E p \in Producers : PushLocked(p)
    \/ \E p \in Producers : PushNotify(p)
    \/ \E c \in Consumers : PopResume(c)
    \/ \E c \in Consumers : PopSpurious(c)

\* a woken consumer re-locks, and a notify that is due is made
WakeFairness ==
    /\ \A c \in Consumers : WF_vars(PopResume(c))
    /\ \A p \in Producers : WF_vars(PushNotify(p))

WakeSpec == WakeInit /\ [][WakeNext]_vars /\ WakeFairness

\* the Pipeline server
Next == PlRun \/ PlShutdown

Init == PlInit /\ MbIdle /\ LfIdle /\ ShIdle /\ HcIdle /\ GrIdle

Spec == Init /\ [][Next]_vars

\* the Pipeline server while no SIGINT arrives
RunSpec == Init /\ [][PlRun]_vars

\* the lines the parser builds a graph from
GraphLines == {l \in PipelineLines : build_graph_from_command(l).kind = "graph"}

\* the lines of the clients of the fan-in: undirected and directed in turn
FanInLines ==
    <<ManualLine(2, <<Tok(0, 1)>>, FALSE), ManualLine(2, <<Tok(0, 1)>>, TRUE)>>

\* the Pipeline server once MaxConn clients have connected, each with a line
\* the parser has built a graph from, and no stage past the parser has run:
\* the GraphJobs are in the dispatcher's mailbox
FanInFed ==
    /\ g_stop = FALSE
    /\ g_listen_fd = 0
    /\ sig_pc = "none"
    /\ \E ls \in {[k \in 1..MaxConn |-> FanInLines[((k - 1) % Len(FanInLines)) + 1]]} :
          /\ conns = [k \in 1..MaxConn |-> NewConn(k, ls[k], k)]
          /\ q_graph =
                [q |-> [k \in 1..MaxConn |->
                          GraphJob(k, build_graph_from_command(ls[k]).g, k)],
                 closed |-> FALSE]
    /\ q_in = NewQueue
    /\ q_alg = [a \in AlgoSet |-> NewQueue]
    /\ q_agg_in = NewQueue
    /\ q_send = NewQueue
    /\ main_pc = At("accept")
    /\ next_id = MaxConn + 1
    /\ parse_pc = "run"
    /\ parse_msg = <<>>
    /\ disp_pc = "run"
    /\ disp_job = <<>>
    /\ disp_k = 0
    /\ disp_delivered = [id \in {} |-> {}]
    /\ alg_pc = [a \in AlgoSet |-> "run"]
    /\ agg_pc = "run"
    /\ reqs_ = [id \in {} |-> <<>>]
    /\ agg_consumed = {}
    /\ send_pc = "run"

FanInInit == FanInFed /\ MbIdle /\ LfIdle /\ ShIdle /\ HcIdle /\ GrIdle

\* the steps of the stages from the dispatcher on
FanInStep ==
    \/ DispPop
    \/ DispPush
    \/ \E a \in AlgoSet : AlgStep(a)
    \/ AggStep
    \/ SendStep

\* the stage threads are scheduled: while one of them can take a step, the
\* server does not stand still for ever
FanInFairness == WF_vars(FanInStep)

\* the stages from the dispatcher on, with no SIGINT and no further client
FanInSpec == FanInInit /\ [][FanInStep]_vars /\ FanInFairness

\* ---- the Pipeline server once the clients of `lines` have connected, one
\* after the other, and their ClientMsgs are in the parser's mailbox
LinesFed(lines) ==
    /\ g_stop = FALSE
    /\ g_listen_fd = 0
    /\ sig_pc = "none"
    /\ conns = [k \in 1..Len(lines) |-> NewConn(k, lines[k], k)]
    /\ q_in = [q |-> [k \in 1..Len(lines) |-> ClientMsg(k, lines[k], k)],
               closed |-> FALSE]
    /\ q_graph = NewQueue
    /\ q_alg = [a \in AlgoSet |-> NewQueue]
    /\ q_agg_in = NewQueue
    /\ q_send = NewQueue
    /\ main_pc = At("accept")
    /\ next_id = Len(lines) + 1
    /\ parse_pc = "run"
    /\ parse_msg = <<>>
    /\ disp_pc = "run"
    /\ disp_job = <<>>
    /\ disp_k = 0
    /\ disp_delivered = [id \in {} |-> {}]
    /\ alg_pc = [a \in AlgoSet |-> "run"]
    /\ agg_pc = "run"
    /\ reqs_ = [id \in {} |-> <<>>]
    /\ agg_consumed = {}
    /\ send_pc = "run"

\* the process lives: no exception has left a thread function (that calls
\* std::terminate, which ends every thread)
Alive == parse_pc # "terminated"

\* the steps of the stage threads while the process lives
LinesNext ==
    \/ Alive /\ ParseStep
    \/ Alive /\ DispPop
    \/ Alive /\ DispPush
    \/ Alive /\ \E a \in AlgoSet : AlgStep(a)
    \/ Alive /\ AggStep
    \/ Alive /\ SendStep

\* the same with RANDOM requests
RandomNext == LinesNext \/ ParseRandomDone

\* the stage threads are scheduled
LinesFairness == WF_vars(LinesNext)
RandomFairness == WF_vars(RandomNext)

GoodLine == ManualLine(2, <<Tok(0, 1)>>, FALSE)

\* "ALG ALL MANUAL 2 : a-b"
NonNumericLine == ManualLine(2, <<NonNumericTok>>, FALSE)

\* what the clients send, in order of connection: lines with edge tokens
\* that are and are not numeric
MalformedLoads ==
    { <<GoodLine>>, <<GoodLine, NonNumericLine>>, <<NonNumericLine, GoodLine>> }

MalformedInit ==
    (\E lines \in MalformedLoads : LinesFed(lines)) /\ MbIdle /\ LfIdle /\ ShIdle /\ HcIdle /\ GrIdle

MalformedSpec == MalformedInit /\ [][LinesNext]_vars /\ LinesFairness

\* "ALG ALL RANDOM 2 1 0" asks for the one edge two vertices can have,
\* "ALG ALL RANDOM 2 2 0" for one more
RandomLoads ==
    { <<RandomLine(2, 1, FALSE)>>,
      <<RandomLine(2, MaxRandomE, FALSE), GoodLine>> }

RandomInit ==
    (\E lines \in RandomLoads : LinesFed(lines)) /\ MbIdle /\ LfIdle /\ ShIdle /\ HcIdle /\ GrIdle

RandomSpec == RandomInit /\ [][RandomNext]_vars /\ RandomFairness

\* "ALG ALL MANUAL 4 : 0-1 1-2 2-3 3-0"
CycleLine == ManualLine(4, <<Tok(0, 1), Tok(1, 2), Tok(2, 3), Tok(3, 0)>>, FALSE)

\* the lines one client may send: accepted ones, and one for each way
\* build_graph_from_command rejects a line
ReplyLines ==
    { GoodLine,
      ManualLine(2, <<Tok(0, 1)>>, TRUE),
      ManualLine(3, <<Tok(0, 1), Tok(2, 1)>>, FALSE),
      ManualLine(2, <<Tok(0, 1), Tok(1, 0)>>, TRUE),
      ManualLine(2, <<Tok(0, 1), Tok(1, 0)>>, FALSE),
      ManualLine(2, <<Tok(0, 1), Tok(0, 1)>>, TRUE),
      ManualLine(2, <<Tok(0, 2)>>, FALSE),
      ManualLine(2, <<Tok(1, 1)>>, TRUE),
      ManualLine(2, <<NoDashTok>>, FALSE),
      ManualLine(0, <<Tok(0, 1)>>, FALSE),
      [ManualLine(2, <<Tok(0, 1)>>, FALSE) EXCEPT !.colon = FALSE],
      [ManualLine(2, <<Tok(0, 1)>>, FALSE) EXCEPT !.mode = "other"],
      [ManualLine(2, <<Tok(0, 1)>>, FALSE) EXCEPT !.kw1 = "other"],
      RandomLine(0, 1, FALSE),
      CycleLine }

ReplyInit ==
    (\E line \in ReplyLines : LinesFed(<<line>>)) /\ MbIdle /\ LfIdle /\ ShIdle /\ HcIdle /\ GrIdle

\* the Pipeline server serving one client
ReplySpec == ReplyInit /\ [][LinesNext]_vars /\ LinesFairness

\* ---- the Pipeline server with one request in flight, for the shutdown
\* the line of the request, and the line of a request the parser rejects
ShutLine == ManualLine(2, <<Tok(0, 1)>>, FALSE)
ShutBadLine == ManualLine(2, <<Tok(0, 2)>>, FALSE)

ShutJob == GraphJob(1, build_graph_from_command(ShutLine).g, 1)

\* the aggregator's state of the request once BEGIN and the results of the
\* algorithms names[i..] other than a are recorded
RECURSIVE RecordedBut(_, _, _, _)
RecordedBut(names, i, a, st) ==
    IF i > Len(names) THEN st
    ELSE RecordedBut(names, i + 1, a,
                     IF names[i] = a THEN st
                     ELSE AggRecord(st, AlgoResult(AlgoTask(ShutJob, names[i]))))

\* where the request is when SIGINT may first arrive:
\*   "none"   no client has connected
\*   "parse"  a line the parser rejects is in the parser's mailbox
\*   "send"   the Response is in the sender's mailbox
\*   a        the fan-out is done and every result but a's is recorded by the
\*            aggregator; a's AlgoTask is in a's mailbox
\*   "fanout" the dispatcher is about to make the last push of the fan-out,
\*            the results of the tasks pushed so far are recorded
ShutLoads == {"none", "parse", "send", "fanout"} \cup AlgoSet

\* the algorithm whose result is outstanding under a load
ShutPending(load) == IF load = "fanout" THEN DispTargets[Len(DispTargets)] ELSE load

ShutdownLoad(load) ==
    /\ conns = IF load = "none" THEN <<>>
               ELSE IF load = "parse" THEN <<NewConn(1, ShutBadLine, 1)>>
               ELSE <<NewConn(1, ShutLine, 1)>>
    /\ next_id = IF load = "none" THEN 1 ELSE 2
    /\ q_in = IF load = "parse"
                 THEN BQPush(NewQueue, ClientMsg(1, ShutBadLine, 1))
                 ELSE NewQueue
    /\ q_graph = NewQueue
    /\ q_alg = [a \in AlgoSet |->
                   IF a = load THEN BQPush(NewQueue, AlgoTask(ShutJob, a))
                   ELSE NewQueue]
    /\ q_agg_in = NewQueue
    /\ q_send = IF load = "send"
                   THEN BQPush(NewQueue,
                               AggResponse(RecordedBut(AlgoNames, 1, "",
                                              AggRecord(NewState, BeginResult(ShutJob)))))
                   ELSE NewQueue
    /\ disp_pc = IF load = "fanout" THEN "push" ELSE "run"
    /\ disp_job = IF load = "fanout" THEN <<ShutJob>> ELSE <<>>
    /\ disp_k = IF load = "fanout" THEN Len(DispTargets) ELSE 0
    /\ disp_delivered = IF load \in AlgoSet \cup {"send"}
                           THEN [id \in {1} |-> {"BEGIN"} \cup AlgoSet]
                           ELSE IF load = "fanout"
                           THEN [id \in {1} |->
                                   ({"BEGIN"} \cup AlgoSet) \ {ShutPending(load)}]
                           ELSE [id \in {} |-> {}]
    /\ reqs_ = IF load \in AlgoSet \cup {"fanout"}
                  THEN [id \in {1} |->
                          RecordedBut(AlgoNames, 1, ShutPending(load),
                                      AggRecord(NewState, BeginResult(ShutJob)))]
                  ELSE [id \in {} |-> <<>>]
    /\ agg_consumed = IF load \in AlgoSet \cup {"send", "fanout"}
                         THEN {AlgoResult(AlgoTask(ShutJob, a)) :
                                  a \in AlgoSet \ {ShutPending(load)}}
                         ELSE {}

\* every thread is inside its loop, the acceptor in accept(), no SIGINT yet
ShutdownFed ==
    /\ g_stop = FALSE
    /\ g_listen_fd = 0
    /\ sig_pc = "none"
    /\ main_pc = At("accept")
    /\ parse_pc = "run"
    /\ parse_msg = <<>>
    /\ alg_pc = [a \in AlgoSet |-> "run"]
    /\ agg_pc = "run"
    /\ send_pc = "run"
    /\ \E load \in ShutLoads : ShutdownLoad(load)

ShutdownInit == ShutdownFed /\ MbIdle /\ LfIdle /\ ShIdle /\ HcIdle /\ GrIdle

\* the steps of the eight stage threads
StageStep ==
    \/ ParseStep
    \/ DispPop
    \/ DispPush
    \/ \E a \in AlgoSet : AlgStep(a)
    \/ AggStep
    \/ SendStep

\* a stage thread that is at its loop head loads g_stop = true and leaves
LoopExit ==
    \/ ParseStop
    \/ DispStop
    \/ \E a \in AlgoSet : AlgStop(a)
    \/ AggStop
    \/ SendStop

\* the rest of the handler after g_stop.store(true), the acceptor leaving
\* its loop, and the shutdown sequence of main()
MainShutdown ==
    \/ SigClose
    \/ MainStop
    \/ MainCloseListen
    \/ MainCloseIn
    \/ MainCloseGraph
    \/ MainCloseAlg
    \/ MainCloseAggIn
    \/ MainCloseSend
    \/ MainJoin

ShutdownNext == SigStore \/ StageStep \/ LoopExit \/ MainShutdown

\* SIGINT itself may never arrive. The handler and main() are scheduled, and
\* so is a stage thread whose pop() can return. A stage thread that made its
\* loop-head load before the flag was set is inside pop() and leaves only
\* when pop() returns, so no progress is assumed from LoopExit: a thread
\* whose mailbox is empty and open may sit there for ever.
ShutdownFairness == WF_vars(StageStep \/ MainShutdown)

ShutdownSpec == ShutdownInit /\ [][ShutdownNext]_vars /\ ShutdownFairness

\* the acceptor, the parser and the dispatcher with SIGINT and the shutdown
\* of main(), while the stages downstream of the dispatcher are not
\* scheduled: what the dispatcher pushes does not depend on their steps
PlFanOut ==
    \/ \E line \in PipelineLines : MainAccept(line)
    \/ MainRecvFail
    \/ ParseStep
    \/ DispPop
    \/ DispPush
    \/ SigStore
    \/ SigClose
    \/ MainStop
    \/ ParseStop
    \/ DispStop
    \/ MainCloseListen
    \/ MainCloseIn
    \/ MainCloseGraph
    \/ MainCloseAlg
    \/ MainCloseAggIn
    \/ MainCloseSend

FanOutSpec == Init /\ [][PlFanOut]_vars

\* the BEGIN sentinel and the four AlgoResults of the request of line l on
\* connection fd with RequestId id
AggFeed(fd, l, id) ==
    LET gj == GraphJob(fd, build_graph_from_command(l).g, id)
    IN  {BeginResult(gj)} \cup {AlgoResult(AlgoTask(gj, a)) : a \in AlgoSet}

\* the orders in which the messages of set S can arrive
Orderings(S) ==
    {s \in [1..Cardinality(S) -> S] :
        \A i, j \in 1..Cardinality(S) : i # j => s[i] # s[j]}

\* the aggregator with the five messages of one request in its mailbox, in
\* any order
AggFed ==
    /\ g_stop = FALSE
    /\ g_listen_fd = 0
    /\ sig_pc = "none"
    /\ \E l \in GraphLines :
          /\ conns = <<NewConn(1, l, 1)>>
          /\ \E s \in Orderings(AggFeed(1, l, 1)) :
                q_agg_in = [q |-> s, closed |-> FALSE]
    /\ q_in = NewQueue
    /\ q_graph = NewQueue
    /\ q_alg = [a \in AlgoSet |-> NewQueue]
    /\ q_send = NewQueue
    /\ main_pc = At("accept")
    /\ next_id = 2
    /\ parse_pc = "run"
    /\ parse_msg = <<>>
    /\ disp_pc = "run"
    /\ disp_job = <<>>
    /\ disp_k = 0
    /\ disp_delivered = [id \in {} |-> {}]
    /\ alg_pc = [a \in AlgoSet |-> "run"]
    /\ agg_pc = "run"
    /\ reqs_ = [id \in {} |-> <<>>]
    /\ agg_consumed = {}
    /\ send_pc = "run"

AggInit == AggFed /\ MbIdle /\ LfIdle /\ ShIdle /\ HcIdle /\ GrIdle

AggSpec == AggInit /\ [][AggStep]_vars

\* the Leader/Followers server
LFInit == LfInit /\ MbIdle /\ PlIdle /\ ShIdle /\ HcIdle /\ GrIdle

LFSpec == LFInit /\ [][LfNext]_vars

\* what is scheduled in the Leader/Followers server: the handler once it has
\* begun, main(), and every step of a worker that does not wait for the
\* outside: accept() is only assumed to return once the listening socket is
\* closed, and a blocked wait is never assumed to wake spuriously
LFFairness ==
    /\ WF_vars(LfSigClose \/ LfSigNotify)
    /\ WF_vars(LfSpawn \/ LfKick \/ LfJoin \/ LfMainClose)
    /\ \A w \in Workers :
          /\ WF_vars(WLock(w))
          /\ WF_vars(WLoop(w) \/ WCheck(w) \/ WBlock(w) \/ WClaim(w)
                        \/ (lf_listen_fd < 0 /\ WAcceptFail(w))
                        \/ WRelease(w) \/ WFailed(w) \/ WHandle(w))

LFFairSpec == LFInit /\ [][LfNext]_vars /\ LFFairness

\* the same, but a worker inside handle_client waits for its client (recv)
\* and is not assumed ever to return
LeaderFairness ==
    /\ WF_vars(LfSigClose \/ LfSigNotify)
    /\ WF_vars(LfSpawn \/ LfKick \/ LfJoin \/ LfMainClose)
    /\ \A w \in Workers :
          /\ WF_vars(WLock(w))
          /\ WF_vars(WLoop(w) \/ WCheck(w) \/ WBlock(w) \/ WClaim(w)
                        \/ (lf_listen_fd < 0 /\ WAcceptFail(w))
                        \/ WRelease(w) \/ WFailed(w))

LeaderSpec == LFInit /\ [][LfNext]_vars /\ LeaderFairness

\* ------------------------------------------------- claims on the mailbox
NoDuplicates(s) == \A i, j \in 1..Len(s) : i # j => s[i] # s[j]

\* C7: every item pushed while the mailbox was open is returned by at most
\* one pop(), nothing is returned that was not pushed, and items come back in
\* the order their pushes took effect: the items popped so far, followed by
\* the items still queued, are exactly the accepted pushes in order.
MailboxFifoExactlyOnce ==
    /\ mb_pushed = mb_popped \o mb.q
    /\ NoDuplicates(mb_popped)
    /\ \A c \in Consumers :
          mb_ret[c].kind = "item" =>
             \E i \in 1..Len(mb_popped) : mb_popped[i] = mb_ret[c].v

\* several items went through the mailbox and every consumer took one
MailboxFifoWitness ==
    /\ Len(mb_popped) >= 2
    /\ \A c \in Consumers : mb_ret[c].kind = "item"
    /\ \E c1, c2 \in Consumers : mb_ret[c1].v # mb_ret[c2].v

\* C8: close() leaves the queued items in place; a pop() that returns takes
\* the front item whenever one is queued (also after close), and returns the
\* closed signal only when the mailbox is closed and empty.
MailboxDrainOnClose ==
    [][ /\ CloseLocked => mb'.q = mb.q
        /\ \A c \in Consumers :
              ((PopEnter(c) \/ PopResume(c)) /\ mb_cpc'[c] = "idle") =>
                 IF mb.q # <<>>
                    THEN /\ mb_ret'[c].kind = "item"
                         /\ mb_ret'[c].v = Head(mb.q)
                         /\ mb'.q = Tail(mb.q)
                    ELSE /\ mb.closed
                         /\ mb_ret'[c].kind = "closed" ]_vars

\* a pop() made after close() returned an item pushed before it
MailboxDrainWitness ==
    \E c \in Consumers : mb_ret[c].kind = "item" /\ mb_ret[c].closed

\* C9: push() on a closed mailbox changes neither the queue nor the closed
\* flag; push() on an open mailbox appends its item; and a push() never waits:
\* each of its two steps can always be taken.
MailboxPushAfterClose ==
    /\ [][ \A p \in Producers :
              PushLocked(p) =>
                 IF mb.closed
                    THEN mb' = mb
                    ELSE /\ mb'.q = Append(mb.q, mb_ticket + 1)
                         /\ mb'.closed = FALSE ]_vars
    /\ [](\A p \in Producers :
             /\ (mb_ppc[p] = "idle" /\ mb_ticket < MaxItems) => ENABLED PushLocked(p)
             /\ mb_ppc[p] = "notify" => ENABLED PushNotify(p))

\* a push() was made on the closed mailbox and dropped
MailboxPushAfterCloseWitness ==
    /\ mb.closed
    /\ mb_ticket > Len(mb_pushed)
    /\ Len(mb_pushed) >= 1

\* C10: a second close() changes nothing; once the mailbox is closed every
\* consumer blocked in pop() returns; and a pop() called on the closed, empty
\* mailbox returns the closed signal in that same step.
MailboxCloseWakesAll ==
    /\ [][ /\ (CloseLocked /\ mb.closed) => mb' = mb
           /\ \A c \in Consumers :
                 (PopEnter(c) /\ mb.closed /\ mb.q = <<>>) =>
                    /\ mb_cpc'[c] = "idle"
                    /\ mb_ret'[c].kind = "closed" ]_vars
    /\ \A c \in Consumers :
          (mb.closed /\ mb_cpc[c] \in {"waiting", "woken"}) ~> (mb_cpc[c] = "idle")

\* close() was called twice and every consumer got the closed signal
MailboxCloseWitness ==
    /\ mb_closer.n >= 2
    /\ \A c \in Consumers : mb_ret[c].kind = "closed"

\* ---- the strategies on one shared graph: a graph of up to MaxV vertices is
\* built by up to MaxEdges addEdge calls, shared, and the four strategies run
\* on it in any order
SharedInit == ShInit /\ MbIdle /\ PlIdle /\ LfIdle /\ HcIdle /\ GrIdle

SharedSpec == SharedInit /\ [][ShNext]_vars

\* ---- MANUAL requests: "ALG ALL MANUAL <V> : t1 .. tk [--directed]" with
\* 1 <= V <= MaxV and up to MaxToks edge tokens u-v, the endpoints in 0..V
\* (V is out of range) or, for the last token, too large for an int
RECURSIVE TokSeqs(_, _)
\* the sequences of up to k of the tokens toks
TokSeqs(toks, k) ==
    IF k = 0 THEN {<<>>}
    ELSE LET shorter == TokSeqs(toks, k - 1)
         IN  shorter \cup {Append(s, t) : s \in {r \in shorter : Len(r) = k - 1},
                                          t \in toks}

ManualToks(V) == {Tok(u, v) : u, v \in 0..V}

\* the MANUAL requests for V vertices
ManualLines(V) ==
    {ManualLine(V, toks, directed) :
        toks \in TokSeqs(ManualToks(V), MaxToks)
                 \cup {Append(s, OverflowTok) :
                          s \in TokSeqs(ManualToks(V), MaxToks - 1)},
        directed \in BOOLEAN}

ManualInit ==
    (\E V \in 1..MaxV : \E line \in ManualLines(V) : LinesFed(<<line>>))
    /\ MbIdle /\ LfIdle /\ ShIdle /\ HcIdle /\ GrIdle

\* the Pipeline server serving one client that sends a MANUAL request
ManualSpec == ManualInit /\ [][LinesNext]_vars /\ LinesFairness

\* ---- RANDOM requests and SIGINT: "ALG ALL RANDOM <V> <E> <seed> [--directed]"
\* sent to either server
GenerateLines ==
    {RandomLine(2, 1, FALSE), RandomLine(2, 1, TRUE),
     RandomLine(MaxV, MaxRandomE, FALSE)}

\* the request was sent to the Pipeline server and is in the parser's
\* mailbox, or it was sent to the Leader/Followers server and a worker is
\* about to call handle_client for it
GenerateInit ==
    /\ \E line \in GenerateLines :
          \/ LinesFed(<<line>>) /\ LfIdle /\ HcIdle
          \/ PlIdle /\ HcFed(line)
    /\ MbIdle
    /\ ShIdle
    /\ GrIdle

\* the server serves the request, and SIGINT may arrive at any moment: the
\* handler stores g_stop, and the stage threads and the worker find it set
\* (main() stays in accept() meanwhile)
GenerateNext ==
    \/ SigStore
    \/ StageStep
    \/ ParseRandomDone
    \/ LoopExit
    \/ HcNext

GenerateSpec == GenerateInit /\ [][GenerateNext]_vars

\* ---- the Graph class and Euler on their own: a graph of up to MaxV vertices
\* under any sequence of addEdge (up to MaxEdges edges at a time) and
\* removeEdge calls, then Euler::run on it
GraphInit == GrInit /\ MbIdle /\ PlIdle /\ LfIdle /\ ShIdle /\ HcIdle

GraphSpec == GraphInit /\ [][GrNext]_vars

\* ---- failures of accept() and recv(): the Pipeline server without SIGINT,
\* or the Leader/Followers server, or a worker of it inside handle_client
IoInit ==
    /\ \/ PlInit /\ LfIdle /\ HcIdle
       \/ PlIdle /\ LfInit /\ HcIdle
       \/ PlIdle /\ HcFed(GoodLine)
    /\ MbIdle
    /\ ShIdle
    /\ GrIdle

\* the Leader/Followers server is the one that runs, and no connection of it
\* is followed through handle_client
LfAlone == g_listen_fd < 0 /\ hc_pc = "idle" /\ main_pc.at = "done"

IoNext ==
    \/ PlRun
    \/ MainAcceptFail
    \/ LfAlone /\ LfSigStore
    \/ LfAlone /\ LfSigClose
    \/ LfAlone /\ LfSigNotify
    \/ LfAlone /\ LfSpawn
    \/ LfAlone /\ LfKick
    \/ LfAlone /\ LfJoin
    \/ LfAlone /\ LfMainClose
    \/ LfAlone /\ \E w \in Workers : WLoop(w)
    \/ LfAlone /\ \E w \in Workers : WLock(w)
    \/ LfAlone /\ \E w \in Workers : WCheck(w)
    \/ LfAlone /\ \E w \in Workers : WBlock(w)
    \/ LfAlone /\ \E w \in Workers : WSpurious(w)
    \/ LfAlone /\ \E w \in Workers : WClaim(w)
    \/ LfAlone /\ \E w \in Workers : WAccept(w)
    \/ LfAlone /\ \E w \in Workers : WAcceptFail(w)
    \/ LfAlone /\ \E w \in Workers : WRelease(w)
    \/ LfAlone /\ \E w \in Workers : WFailed(w)
    \/ LfAlone /\ \E w \in Workers : WHandle(w)
    \/ \E w \in Workers : HcRecvFail(w)
    \/ \E w \in Workers : HcBuild(w)

IoSpec == IoInit /\ [][IoNext]_vars

\* ---- SIGINT while requests are in flight: two clients have connected, their
\* ClientMsgs are in the parser's mailbox, and the handler may store g_stop at
\* any moment; a stage thread at its loop head then leaves, one inside pop()
\* goes on when pop() returns (main() stays in accept() meanwhile)
StopLoads == {<<GoodLine, ShutBadLine>>}

StopInit ==
    (\E lines \in StopLoads : LinesFed(lines)) /\ MbIdle /\ LfIdle /\ ShIdle /\ HcIdle /\ GrIdle

StopNext == SigStore \/ StageStep \/ LoopExit

StopSpec == StopInit /\ [][StopNext]_vars
\* --------------------------------------- claims on the Leader/Followers server
\* C1: at most one worker is between acquiring leadership (g_has_leader set
\* by it) and releasing it, that is inside accept() or about to hand the
\* leadership on.
LeadershipExclusive ==
    Cardinality({w \in Workers : w_pc[w] \in {"accept", "release"}}) <= 1

\* ------------------------------------------- claims on the Pipeline server
\* the graph the parser builds for connection k
ConnGraph(k) == build_graph_from_command(conns[k].line).g

\* the Response the request of connection k is answered with
ExpectedResponse(k) ==
    [client_fd |-> conns[k].fd,
     payload |-> << <<"Graph: ", label(ConnGraph(k))>>,
                    <<"MST: ", RunAlgorithm("MST", ConnGraph(k))>>,
                    <<"SCC: ", RunAlgorithm("SCC", ConnGraph(k))>>,
                    <<"MAXFLOW: ", RunAlgorithm("MAXFLOW", ConnGraph(k))>>,
                    <<"HAMILTON: ", RunAlgorithm("HAMILTON", ConnGraph(k))>> >>,
     id |-> 0]

\* the connections whose line the parser builds a graph from
Requests ==
    {k \in 1..Len(conns) :
        conns[k].id # 0 /\ build_graph_from_command(conns[k].line).kind = "graph"}

\* the algorithm results with RequestId id the aggregator has consumed
ConsumedFor(id) == {m \in agg_consumed : m.id = id}

FourNames == <<"MST", "SCC", "MAXFLOW", "HAMILTON">>

\* C2: a Response is in the sender's mailbox only when, for one RequestId,
\* the aggregator has consumed a result of each of MST, SCC, MAXFLOW and
\* HAMILTON, and its payload is the label line followed by exactly the texts
\* of those four results.
AggregateNoPartial ==
    \A i \in 1..Len(q_send.q) :
       /\ Len(q_send.q[i].payload) = 5
       /\ \E id \in 1..MaxConn :
             \A n \in 1..4 :
                \E m \in ConsumedFor(id) :
                   /\ m.algoName = FourNames[n]
                   /\ q_send.q[i].payload[n + 1][2] = m.text

\* a Response is queued while another request has only part of its results in
AggregateNoPartialWitness ==
    /\ q_send.q # <<>>
    /\ \E id \in 1..MaxConn :
          /\ ConsumedFor(id) # {}
          /\ Cardinality({m.algoName : m \in ConsumedFor(id)}) < 4

\* C3: whatever the order in which the BEGIN sentinel and the four results
\* of one request arrive, the aggregator emits one Response, and it is the
\* same one: the request's handle, its label line, then the lines of MST,
\* SCC, MAXFLOW and HAMILTON in that order.
AggregateOrderIndependent ==
    /\ Len(q_send.q) <= 1
    /\ q_send.q # <<>> => q_send.q = <<ExpectedResponse(1)>>
    /\ q_agg_in.q = <<>> => q_send.q # <<>>

\* all five messages are consumed and the BEGIN sentinel came last: it left
\* an entry behind after the Response was emitted
AggregateOrderWitness ==
    /\ q_agg_in.q = <<>>
    /\ q_send.q # <<>>
    /\ 1 \in DOMAIN reqs_

\* C4: every Response the aggregator emits is the Response of one request:
\* the handle and label of a connection and the four texts computed for that
\* connection's graph; the results recorded for a request are those of its
\* own graph; and a connection is only ever written its own Response (or the
\* parser's error reply).
NoCrossTalk ==
    /\ \A i \in 1..Len(q_send.q) :
          \E k \in Requests : conns[k].open /\ q_send.q[i] = ExpectedResponse(k)
    /\ \A id \in DOMAIN reqs_ :
          \E k \in Requests :
             /\ conns[k].id = id
             /\ reqs_[id].client_fd = conns[k].fd
             /\ reqs_[id].label = label(ConnGraph(k))
             /\ \A a \in DOMAIN reqs_[id].got :
                   reqs_[id].got[a] = RunAlgorithm(a, ConnGraph(k))
    /\ \A k \in 1..Len(conns) :
          \/ conns[k].out = <<>>
          \/ k \in Requests /\ conns[k].out = <<ExpectedResponse(k).payload>>
          \/ /\ k \notin Requests
             /\ Len(conns[k].out) = 1
             /\ conns[k].out[1][1] = "Error: "

\* two requests with different graphs are in the aggregator at once, each
\* with some of its results in
NoCrossTalkWitness ==
    /\ Cardinality(DOMAIN reqs_) = 2
    /\ \A id \in DOMAIN reqs_ : DOMAIN reqs_[id].got # {}
    /\ \E j, k \in Requests : ConnGraph(j) # ConnGraph(k)

\* the five targets of a fan-out, in the order of the pushes
FiveTargets == <<"BEGIN", "MST", "SCC", "MAXFLOW", "HAMILTON">>

\* the mailbox a push to target t goes to
TargetQueue(t) == IF t = "BEGIN" THEN q_agg_in ELSE q_alg[t]

\* the dispatcher is still pushing the messages of the job with RequestId id
InFanOut(id) == disp_pc = "push" /\ disp_job[1].id = id

\* C5 as stated: once the dispatcher is through with a job, every one of the
\* five targets has taken its message.
FanOutNeverPartial ==
    \A id \in DOMAIN disp_delivered :
       ~InFanOut(id) => disp_delivered[id] = {FiveTargets[n] : n \in 1..5}

\* whether message m, queued for target t, is the message of a request:
\* the RequestId, handle, label and graph of one connection
MessageOfRequest(m, t) ==
    /\ m.algoName = t
    /\ \E k \in Requests :
          /\ m.id = conns[k].id
          /\ m.client_fd = conns[k].fd
          /\ m.label = label(ConnGraph(k))
          /\ t # "BEGIN" => m.g = ConnGraph(k)

\* C5: for every job the dispatcher pops it makes one push per target, in
\* the order BEGIN, MST, SCC, MAXFLOW, HAMILTON, directed graph or not; a
\* push puts the message in the target's mailbox exactly when that mailbox
\* is open, so a target is left out only if shutdown has closed its mailbox;
\* and every message carries the job's RequestId, handle, label and graph,
\* once per job and target.
FanOutWhileOpen ==
    /\ [](\A id \in DOMAIN disp_delivered :
             \A n \in 1..5 :
                \/ InFanOut(id) /\ n >= disp_k
                \/ FiveTargets[n] \in disp_delivered[id]
                \/ TargetQueue(FiveTargets[n]).closed)
    /\ [](\A n \in 1..5 :
             LET t == FiveTargets[n]
                 q == TargetQueue(t).q
             IN  /\ \A i \in 1..Len(q) :
                       /\ MessageOfRequest(q[i], t)
                       /\ q[i].id \in DOMAIN disp_delivered
                       /\ t \in disp_delivered[q[i].id]
                 /\ \A i, j \in 1..Len(q) : i # j => q[i].id # q[j].id
                 /\ \A id \in DOMAIN disp_delivered :
                       t \in disp_delivered[id] => \E i \in 1..Len(q) : q[i].id = id)
    /\ [][DispPush =>
             LET t  == FiveTargets[disp_k]
                 id == disp_job[1].id
             IN  t \in disp_delivered'[id] <=> ~TargetQueue(t).closed]_vars

\* the job of a directed graph went to all five targets, and the job of
\* another request lost some of its messages to the shutdown
FanOutWitness ==
    /\ disp_pc # "push"
    /\ \E id \in DOMAIN disp_delivered :
          /\ disp_delivered[id] = {FiveTargets[n] : n \in 1..5}
          /\ \E k \in Requests : conns[k].id = id /\ ConnGraph(k).directed
    /\ \E id \in DOMAIN disp_delivered :
          disp_delivered[id] # {FiveTargets[n] : n \in 1..5}

\* the GraphJob of connection k is in the dispatcher's mailbox
JobQueued(k) ==
    /\ k \in Requests
    /\ \E i \in 1..Len(q_graph.q) : q_graph.q[i].id = conns[k].id

\* the aggregator has consumed the four results of connection k's request
AllResultsIn(k) ==
    /\ k \in Requests
    /\ {m.algoName : m \in ConsumedFor(conns[k].id)} = {FourNames[n] : n \in 1..4}

\* the sender has written connection k its Response, once, and closed it
Answered(k) ==
    /\ k \in Requests
    /\ conns[k].out = <<ExpectedResponse(k).payload>>
    /\ ~conns[k].open

\* C6: without shutdown, every GraphJob in the dispatcher's mailbox leads to
\* the aggregator having all four results of its request, and to the sender
\* having written the request's one Response and closed its connection; no
\* connection is ever written more than one Response.
FanInLiveness ==
    /\ \A k \in 1..MaxConn : JobQueued(k) ~> (AllResultsIn(k) /\ Answered(k))
    /\ [](\A k \in 1..Len(conns) : Len(conns[k].out) <= 1)
    /\ [](Len(q_send.q) + Cardinality({k \in Requests : conns[k].out # <<>>})
             <= Cardinality(Requests))

\* two requests were in the pipeline at once and both are answered
FanInWitness ==
    /\ Cardinality(Requests) = 2
    /\ \A k \in Requests : Answered(k)

\* ------------------------------------------------ more claims on the mailbox
\* the consumers whose blocked pop() has returned an item
Served == {c \in Consumers : mb_cpc[c] = "idle" /\ mb_ret[c].kind = "item"}

\* the consumers that were blocked in pop() to begin with
Blocked == {c \in Consumers : mb_cpc[c] # "idle"} \cup Served

Min(a, b) == IF a <= b THEN a ELSE b

\* C11: with any number of consumers blocked in pop() on the open mailbox, once k
\* pushes are accepted at least min(k, number of blocked consumers) of the
\* blocked pops eventually return an item, and a pop that has not returned
\* never stays blocked beside a queued item.
NoLostWakeup ==
    /\ \A k \in 0..MaxItems :
          (Len(mb_pushed) >= k) ~> (Cardinality(Served) >= Min(k, Cardinality(Blocked)))
    /\ (mb.q # <<>>) ~> (mb.q = <<>> \/ Served = Blocked)

\* a notify_one made after the unlock has woken a consumer that now finds
\* an item, while another consumer's pop has already returned one
NoLostWakeupWitness ==
    /\ \E c \in Consumers : mb_cpc[c] = "woken" /\ mb.q # <<>>
    /\ Served # {}
    /\ Blocked = Consumers
    /\ \A p \in Producers : mb_ppc[p] = "idle"

\* ------------------------------------------------ shutdown of the Pipeline
AllMailboxesClosed ==
    /\ q_in.closed /\ q_graph.closed /\ q_agg_in.closed /\ q_send.closed
    /\ \A a \in AlgoSet : q_alg[a].closed

AllStagesExited ==
    /\ parse_pc = "done" /\ disp_pc = "done" /\ agg_pc = "done" /\ send_pc = "done"
    /\ \A a \in AlgoSet : alg_pc[a] = "done"

StageDrainsMailbox ==
    /\ parse_pc = "done" => q_in.q = <<>>
    /\ \A a \in AlgoSet : alg_pc[a] = "done" => q_alg[a].q = <<>>
    /\ send_pc = "done" => q_send.q = <<>>

\* ------------------------------------------------ Leader/Followers hand-off
\* C15: when a worker's accept() has returned (success or failure), its next
\* step clears g_has_leader and wakes exactly one waiting follower when one
\* waits, and only with that step does it go on to handle_client (or to the
\* failure branch); no worker is in handle_client before its release.
HandOffBeforeHandling ==
    [][\A w \in Workers :
          /\ (w_pc[w] = "release" /\ w_pc'[w] # "release") =>
                /\ w_pc'[w] = (IF w_cfd[w] < 0 THEN "failed" ELSE "handle")
                /\ g_has_leader' = FALSE
                /\ g_cv # {} => \E v \in g_cv : /\ g_cv' = g_cv \ {v}
                                                /\ w_pc'[v] = "woken"
                /\ g_cv = {} => g_cv' = {}
          /\ (w_pc[w] # "handle" /\ w_pc'[w] = "handle") => w_pc[w] = "release"]_vars

\* a worker serves its client while the follower its release woke is on its
\* way to leadership
HandOffWitness ==
    \E w, v \in Workers :
        /\ w_pc[w] = "handle"
        /\ w_pc[v] = "woken"
        /\ g_has_leader = FALSE

\* ------------------------------------------------ parse failures
\* the connections whose line the parser rejects
Rejected ==
    {k \in 1..Len(conns) :
        conns[k].id # 0 /\ build_graph_from_command(conns[k].line).kind = "error"}

\* the RequestIds borne by the messages and states past the parser
IdsPastParser ==
    {q_graph.q[i].id : i \in 1..Len(q_graph.q)}
    \cup UNION {{q_alg[a].q[i].id : i \in 1..Len(q_alg[a].q)} : a \in AlgoSet}
    \cup {q_agg_in.q[i].id : i \in 1..Len(q_agg_in.q)}
    \cup {disp_job[i].id : i \in 1..Len(disp_job)}
    \cup DOMAIN disp_delivered
    \cup DOMAIN reqs_
    \cup {m.id : m \in agg_consumed}

AtParser(id) == \E i \in 1..Len(q_in.q) : q_in.q[i].id = id

JobsQueued(id) == {i \in 1..Len(q_graph.q) : q_graph.q[i].id = id}

ParserSurvivesMalformed == parse_pc = "run"

\* ------------------------------------------------ requests run to completion
\* C18: with no shutdown, every request whose ClientMsg is in the parser's
\* mailbox eventually has an Error reply or a Response written to its
\* connection, RANDOM requests with any V and E included.
EveryRequestCompletes == <>(\A k \in DOMAIN conns : conns[k].out # <<>>)

\* ------------------------------------------------ the two servers' replies
\* the lines on which the two servers word the error differently
WordedDifferently(line) ==
    LET b == build_graph_from_command(line)
    IN  /\ b.kind = "error"
        /\ b.err[1] \in {"Invalid endpoints: ",
                          "Format: ALG ALL MANUAL <V> : u-v ... [--directed]"}

PushedIds == {conns[k].id : k \in {j \in DOMAIN conns : conns[j].id # 0}}

\* the RequestIds of the items of a mailbox, in order
IdsIn(m) == [k \in DOMAIN m.q |-> m.q[k].id]

Injective(s) == \A i, j \in DOMAIN s : i # j => s[i] # s[j]

\* C21: every ClientMsg main() pushes carries a RequestId strictly greater
\* than the id of every ClientMsg pushed before it, and no two requests in
\* the parser's or the dispatcher's mailbox share a RequestId.
FreshRequestIds ==
    /\ [][Len(q_in'.q) > Len(q_in.q) =>
            \A id \in PushedIds : q_in'.q[Len(q_in'.q)].id > id]_vars
    /\ [](/\ Injective(IdsIn(q_in) \o IdsIn(q_graph))
          /\ \A id \in PushedIds : id < next_id)

\* C21 witness: two ClientMsgs have been pushed and both are still in q_in
FreshRequestIdsWitness ==
    /\ Len(q_in.q) = 2
    /\ Cardinality(PushedIds) = 2

CircuitVertices(text) == {text[i] : i \in {j \in 2..Len(text) : j % 2 = 0}}

\* the reply to the request of scenario 1 reports MST weight w
CycleReply(w) ==
    \A k \in DOMAIN conns :
        (conns[k].line = CycleLine /\ conns[k].out # <<>>) =>
            /\ Len(conns[k].out) = 1
            /\ conns[k].out[1][1] = <<"Graph: ", <<"Undirected", "Graph(", 4, "V,", 4, "E)">> >>
            /\ conns[k].out[1][2] =
                   <<"MST: ", <<"MST weight: ", w, " (edges used: ", 3, ").">> >>
            /\ conns[k].out[1][5][1] = "HAMILTON: "
            /\ conns[k].out[1][5][2][1] = "Hamiltonian circuit: "
            /\ CircuitVertices(conns[k].out[1][5][2]) = 0..3

\* C23 as stated: the request `ALG ALL MANUAL 4 : 0-1 1-2 2-3 3-0` is answered
\* with the label UndirectedGraph(4V,4E), an MST line reporting weight 4 with
\* 3 edges used and a HAMILTON line with a circuit through all four vertices.
CycleReplyWeightFour == CycleReply(4)

\* C23: the request `ALG ALL MANUAL 4 : 0-1 1-2 2-3 3-0` is answered with the
\* label UndirectedGraph(4V,4E), an MST line reporting weight 3 with 3 edges
\* used and a HAMILTON line with a circuit through all four vertices.
CycleReplyWeightThree == CycleReply(3)

\* C23 witness: the request of scenario 1 has been answered and closed
CycleReplyWitness ==
    \E k \in DOMAIN conns :
        conns[k].line = CycleLine /\ conns[k].out # <<>> /\ ~conns[k].open

\* ---- MANUAL parsing
\* the i-th edge token of a MANUAL line has an endpoint outside 0..V-1, is a
\* self-loop, or repeats an earlier token's edge (an undirected edge in either
\* orientation, a directed arc in the same orientation)
BadEdge(line, i) ==
    LET t == line.toks[i] IN
    \/ t.u < 0 \/ t.u >= line.V \/ t.v < 0 \/ t.v >= line.V
    \/ t.u = t.v
    \/ \E j \in 1..(i - 1) :
          \/ line.toks[j].u = t.u /\ line.toks[j].v = t.v
          \/ ~line.directed /\ line.toks[j].u = t.v /\ line.toks[j].v = t.u

\* the edges a graph holds: (u, v) for an arc, and for an undirected graph
\* every edge once, as it is found in the list of its lower endpoint
EdgesOf(g) ==
    UNION {{<<u, g.adj[u][i][1], g.adj[u][i][2]>> :
               i \in {j \in 1..Len(g.adj[u]) : g.directed \/ u < g.adj[u][j][1]}} :
           u \in 0..(g.n - 1)}

\* the edges a MANUAL line lists, each of weight 1
ListedEdges(line) ==
    {IF line.directed \/ line.toks[i].u < line.toks[i].v
        THEN <<line.toks[i].u, line.toks[i].v, 1>>
        ELSE <<line.toks[i].v, line.toks[i].u, 1>> : i \in 1..Len(line.toks)}

\* C24: once the parser has taken a MANUAL request, if one of its edge tokens
\* has an endpoint out of range, is a self-loop or repeats an earlier edge, the
\* connection holds one Error reply and is closed and nothing of the request is
\* past the parser; otherwise the GraphJob pushed holds a graph with exactly
\* the edges listed.
ManualRejectsBadEdges ==
    \A k \in DOMAIN conns :
        (conns[k].line.mode = "manual" /\ ~AtParser(conns[k].id)) =>
            IF \E i \in 1..Len(conns[k].line.toks) : BadEdge(conns[k].line, i)
               THEN /\ Len(conns[k].out) = 1
                    /\ conns[k].out[1][1] = "Error: "
                    /\ ~conns[k].open
                    /\ conns[k].id \notin IdsPastParser
               ELSE /\ conns[k].id \in IdsPastParser \/ conns[k].out # <<>>
                    /\ \A i \in JobsQueued(conns[k].id) :
                          /\ q_graph.q[i].g.n = conns[k].line.V
                          /\ q_graph.q[i].g.directed = conns[k].line.directed
                          /\ q_graph.q[i].g.m = Len(conns[k].line.toks)
                          /\ EdgesOf(q_graph.q[i].g) = ListedEdges(conns[k].line)

\* ---- RANDOM generation
\* g has exactly E distinct edges or arcs, none of them a self-loop
ExactlyEdges(g, E) ==
    /\ g.m = E
    /\ Cardinality(EdgesOf(g)) = E
    /\ \A e \in EdgesOf(g) : e[1] # e[2]

\* the reply holds the five lines and its label reports V vertices and E edges
LabelReports(reply, line) ==
    /\ Len(reply) = 5
    /\ reply[1] = <<"Graph: ", <<IF line.directed THEN "Directed" ELSE "Undirected",
                                 "Graph(", line.V, "V,", line.E, "E)">> >>

\* C25: a RANDOM request that is answered with a Response was answered for a
\* graph of exactly E distinct edges or arcs and no self-loop, and the label
\* reports E edges, in the Pipeline server and in the Leader/Followers server,
\* SIGINT arriving at any moment.
RandomYieldsExactlyE ==
    /\ \A k \in DOMAIN conns :
          (conns[k].line.mode = "random" /\ conns[k].out # <<>>
             /\ conns[k].out[1][1] # "Error: ") =>
                LabelReports(conns[k].out[1], conns[k].line)
    /\ (hc_pc = "closed" /\ hc_line.mode = "random" /\ hc_out # <<>>
          /\ hc_out[1][1] # "Error: ") =>
             /\ LabelReports(hc_out[1], hc_line)
             /\ ExactlyEdges(hc_g, hc_line.E)

\* ---- Error replies
\* the ways a request line fails to parse or build: unknown command family,
\* bad mode, bad format, bad token, invalid endpoints or self-loop, duplicate
\* edge
UnknownFamily(line) == line.kw1 # "alg" \/ line.kw2 # "all"

FailsToBuild(line) ==
    \/ UnknownFamily(line)
    \/ line.mode \notin {"random", "manual"}
    \/ line.V = 0
    \/ line.mode = "manual" /\ ~line.colon
    \/ line.mode = "manual" /\ \E i \in 1..Len(line.toks) :
                                  ~line.toks[i].dash \/ BadEdge(line, i)

\* the Error reply of `lines` lines, as one send, and nothing else
ErrorLines(out, lines) ==
    /\ Len(out) = 1
    /\ out[1][1] = "Error: "
    /\ Len(out[1]) = lines + 1

Arcs(g) ==
    UNION {{<<u, g.adj[u][i][1]>> : i \in 1..Len(g.adj[u])} : u \in 0..(g.n - 1)}

RECURSIVE ReachableFrom(_, _)
\* the vertices reached from the set S along arcs of A
ReachableFrom(A, S) ==
    LET T == S \cup {a[2] : a \in {b \in A : b[1] \in S}}
    IN  IF T = S THEN S ELSE ReachableFrom(A, T)

\* an undirected graph is connected: every vertex is reached from vertex 0
Connected(g) == ReachableFrom(Arcs(g), {0}) = 0..(g.n - 1)

RECURSIVE TotalWeight(_)
\* the sum of the weights of a set of edges (u, v, w)
TotalWeight(T) ==
    IF T = {} THEN 0
    ELSE LET e == CHOOSE x \in T : TRUE IN e[3] + TotalWeight(T \ {e})

\* the spanning trees of g: the sets of n-1 edges that connect all vertices
SpanningTrees(g) ==
    {T \in SUBSET EdgesOf(g) :
        /\ Cardinality(T) = g.n - 1
        /\ ReachableFrom({<<e[1], e[2]>> : e \in T} \cup {<<e[2], e[1]>> : e \in T},
                         {0}) = 0..(g.n - 1)}

\* what the MST strategy is to answer for g
MstExpected(g) ==
    IF g.directed THEN <<"MST undefined for directed graphs.">>
    ELSE IF ~Connected(g) THEN <<"Graph is disconnected; MST does not exist.">>
    ELSE LET least == CHOOSE T \in SpanningTrees(g) :
                         \A S \in SpanningTrees(g) : TotalWeight(T) <= TotalWeight(S)
         IN  <<"MST weight: ", TotalWeight(least), " (edges used: ", g.n - 1, ").">>

\* C27: the text the MST strategy returned for the shared graph reports, for
\* an undirected connected graph, the least total weight of a spanning tree
\* and n-1 edges used, for an undirected disconnected graph that no MST
\* exists, and for a directed graph that MST is undefined (no weight in it);
\* and it is the text for every order std::sort may leave edges of equal
\* weight in.
MstReportsMinimum ==
    (sh_pc = "shared" /\ sh_text["MST"] # <<>>) =>
        /\ sh_text["MST"] = MstExpected(sh_built)
        /\ \A edges \in mst_sorted_orders(mst_edges(sh_built, 0)) :
              mst_text(sh_built, edges) = MstExpected(sh_built)

\* the strategy has run on a connected undirected graph with a cycle whose
\* edges differ in weight: the spanning trees differ in weight
MstReportsMinimumWitness ==
    /\ sh_pc = "shared"
    /\ sh_text["MST"] # <<>>
    /\ ~sh_built.directed
    /\ Connected(sh_built)
    /\ \E S, T \in SpanningTrees(sh_built) : TotalWeight(S) < TotalWeight(T)

\* the weight of the arc (u, v) of g
WeightOf(g, a) ==
    g.adj[a[1]][CHOOSE i \in 1..Len(g.adj[a[1]]) : g.adj[a[1]][i][1] = a[2]][2]

RECURSIVE SumOver(_, _)
\* the sum of f over the set S
SumOver(S, f) ==
    IF S = {} THEN 0
    ELSE LET a == CHOOSE x \in S : TRUE IN f[a] + SumOver(S \ {a}, f)

\* the flows from vertex 0 to vertex n-1 in g when arc a has capacity cap[a]:
\* no arc carries more than its capacity and every other vertex passes on
\* what it receives
Flows(g, cap) ==
    LET top == CHOOSE c \in {cap[a] : a \in Arcs(g)} \cup {0} :
                   \A a \in Arcs(g) : cap[a] <= c
    IN  {f \in [Arcs(g) -> 0..top] :
            /\ \A a \in Arcs(g) : f[a] <= cap[a]
            /\ \A v \in 1..(g.n - 2) :
                  SumOver({a \in Arcs(g) : a[2] = v}, f)
                     = SumOver({a \in Arcs(g) : a[1] = v}, f)}

\* what a flow carries out of vertex 0
FlowValue(g, f) ==
    SumOver({a \in Arcs(g) : a[1] = 0}, f) - SumOver({a \in Arcs(g) : a[2] = 0}, f)

\* the maximum flow from vertex 0 to vertex n-1
MaxFlowValue(g, cap) ==
    LET values == {FlowValue(g, f) : f \in Flows(g, cap)}
    IN  CHOOSE x \in values : \A y \in values : y <= x

\* the MAXFLOW text of the shared graph (of two vertices or more) reports the
\* maximum flow for the capacities cap, and 0 when vertex 0 does not reach
\* vertex n-1
MaxFlowReports(cap) ==
    (sh_pc = "shared" /\ sh_text["MAXFLOW"] # <<>> /\ sh_built.n >= 2) =>
        /\ sh_text["MAXFLOW"] =
              <<"Max flow (0 -> ", sh_built.n - 1, "): ", MaxFlowValue(sh_built, cap), ".">>
        /\ (sh_built.n - 1) \notin ReachableFrom(Arcs(sh_built), {0}) =>
              sh_text["MAXFLOW"][4] = 0

\* C28 as stated: the value reported is the maximum flow from vertex 0 to
\* vertex n-1 when the capacity of every arc is its weight (an undirected
\* edge being an arc in each direction), and 0 when n-1 is not reached.
MaxFlowOfWeights ==
    MaxFlowReports([a \in Arcs(sh_built) |-> WeightOf(sh_built, a)])

\* C28 amended: the same, the capacity of an arc being its weight, or 1 when
\* its weight is 0.
MaxFlowOfWeightsOrOne ==
    MaxFlowReports([a \in Arcs(sh_built) |->
                      IF WeightOf(sh_built, a) = 0 THEN 1 ELSE WeightOf(sh_built, a)])

\* the strategy has found a flow of 2 along two routes, one of them over an
\* arc of weight 0
MaxFlowWitness ==
    /\ sh_pc = "shared"
    /\ sh_built.n = 3
    /\ sh_text["MAXFLOW"] = <<"Max flow (0 -> ", 2, "): ", 2, ".">>
    /\ <<0, 2>> \in Arcs(sh_built)
    /\ <<0, 1>> \in Arcs(sh_built)
    /\ \E a \in Arcs(sh_built) : WeightOf(sh_built, a) = 0

\* the strongly connected components of g: the classes of vertices that reach
\* one another (for an undirected graph, its connected components)
Components(g) ==
    {{v \in ReachableFrom(Arcs(g), {u}) : u \in ReachableFrom(Arcs(g), {v})} :
        u \in 0..(g.n - 1)}

\* C29: the count the SCC strategy returned for the shared graph is the number
\* of its strongly connected components when it is directed (1 when its arcs
\* form a cycle through all vertices) and the number of its connected
\* components when it is undirected.
SccCountsComponents ==
    (sh_pc = "shared" /\ sh_text["SCC"] # <<>>) =>
        /\ sh_text["SCC"] = <<"SCC count: ", Cardinality(Components(sh_built)), ".">>
        /\ (sh_built.directed /\ sh_built.n = 3
              /\ Arcs(sh_built) \in {{<<0, 1>>, <<1, 2>>, <<2, 0>>},
                                     {<<0, 2>>, <<2, 1>>, <<1, 0>>}}) =>
                 sh_text["SCC"][2] = 1

\* the strategy has run on a directed graph of three vertices and three arcs
\* that has two strongly connected components: a cycle of two vertices, and
\* the third vertex
SccCountsWitness ==
    /\ sh_pc = "shared"
    /\ sh_text["SCC"] # <<>>
    /\ sh_built.directed
    /\ sh_built.n = 3
    /\ Cardinality(Components(sh_built)) = 2
    /\ sh_built.m = 3

\* the Hamiltonian circuits of g from vertex 0: the orders p[1] = 0, .., p[n]
\* of its vertices, each once, in which every vertex is followed by one it
\* has an edge or arc to, and the last one by vertex 0
Circuits(g) ==
    {p \in [1..g.n -> 0..(g.n - 1)] :
        /\ p[1] = 0
        /\ \A i, j \in 1..g.n : i # j => p[i] # p[j]
        /\ \A i \in 1..(g.n - 1) : <<p[i], p[i + 1]>> \in Arcs(g)
        /\ <<p[g.n], 0>> \in Arcs(g)}

\* the vertex sequence a HAMILTON text lists after its header
CircuitOf(text) == [i \in 1..(Len(text) \div 2) |-> text[2 * i]]

\* the HAMILTON text is right for g: a circuit of g, closed by vertex 0, when
\* g has one, and `No Hamiltonian circuit.` when it has none
HamiltonRight(text, g) ==
    IF Circuits(g) = {} THEN text = <<"No Hamiltonian circuit.">>
    ELSE /\ text[1] = "Hamiltonian circuit: "
         /\ Len(text) = 2 * (g.n + 1)
         /\ CircuitOf(text)[g.n + 1] = 0
         /\ SubSeq(CircuitOf(text), 1, g.n) \in Circuits(g)

OutArcs(g, u) == Cardinality({a \in Arcs(g) : a[1] = u})

InArcs(g, u) == Cardinality({a \in Arcs(g) : a[2] = u})

\* the vertices that are not isolated
NonIsolated(g) == {a[1] : a \in Arcs(g)} \cup {a[2] : a \in Arcs(g)}

\* every vertex has even degree (undirected), equal in- and out-degree (directed)
DegreesBalanced(g) ==
    IF g.directed THEN \A u \in 0..(g.n - 1) : InArcs(g, u) = OutArcs(g, u)
    ELSE \A u \in 0..(g.n - 1) : OutArcs(g, u) % 2 = 0

\* the non-isolated vertices reach one another along the arcs
NonIsolatedConnected(g) ==
    \A u \in NonIsolated(g) : NonIsolated(g) \subseteq ReachableFrom(Arcs(g), {u})

\* the vertex sequence a text of Euler::run reports (vertex 0 alone for the
\* circuit of a graph without edges)
EulerCircuitOf(text) ==
    IF text[1] = "Graph has no edges; trivial Euler circuit at vertex 0." THEN <<0>>
    ELSE [i \in 1..(Len(text) \div 2) |-> text[2 * i]]

\* c is closed and walks every edge or arc of g exactly once, arcs head to tail
WalksEveryEdgeOnce(c, g) ==
    /\ c # <<>>
    /\ c[1] = c[Len(c)]
    /\ IF g.directed
          THEN /\ Len(c) - 1 = Cardinality(Arcs(g))
               /\ {<<c[i], c[i + 1]>> : i \in 1..(Len(c) - 1)} = Arcs(g)
          ELSE /\ Len(c) - 1 = Cardinality({{a[1], a[2]} : a \in Arcs(g)})
               /\ {{c[i], c[i + 1]} : i \in 1..(Len(c) - 1)} =
                     {{a[1], a[2]} : a \in Arcs(g)}

\* the texts that name a condition g violates
EulerViolations(g) ==
    (IF ~g.directed /\ ~DegreesBalanced(g)
        THEN {<<"No Euler circuit: at least one vertex has odd degree.">>} ELSE {})
    \cup (IF ~g.directed /\ ~NonIsolatedConnected(g)
        THEN {<<"No Euler circuit: graph is disconnected on non-isolated vertices.">>} ELSE {})
    \cup (IF g.directed /\ ~DegreesBalanced(g)
        THEN {<<"No Euler circuit (directed): in-degree != out-degree at some vertex.">>} ELSE {})
    \cup (IF g.directed /\ ~NonIsolatedConnected(g)
        THEN {<<"No Euler circuit (directed): graph is not strongly connected on non-isolated vertices.">>} ELSE {})

\* C31: the text Euler::run returned for the graph reports a circuit exactly
\* when every vertex has even degree (undirected) or equal in- and out-degree
\* (directed) and the non-isolated vertices are connected (strongly, when
\* directed); the sequence reported is closed and traverses every edge or arc
\* exactly once; otherwise the text names a condition the graph violates.
EulerReportsCircuit ==
    gr_text # <<>> =>
        IF DegreesBalanced(gr_g) /\ NonIsolatedConnected(gr_g)
           THEN /\ gr_text[1] \in {"Euler circuit: ", "Euler circuit (directed): ",
                                   "Graph has no edges; trivial Euler circuit at vertex 0."}
                /\ WalksEveryEdgeOnce(EulerCircuitOf(gr_text), gr_g)
           ELSE gr_text \in EulerViolations(gr_g)

\* ---- the guards of addEdge
\* no adjacency list names a neighbour twice
NoDuplicateNeighbour(g) ==
    \A u \in 0..(g.n - 1) : \A i, j \in 1..Len(g.adj[u]) :
        i # j => g.adj[u][i][1] # g.adj[u][j][1]

\* C32: on a graph with self-loops and multi-edges disabled, an addEdge of an
\* edge that exists already (in either orientation when the graph is undirected)
\* leaves the adjacency lists and the edge count as they were; addEdge(u, u)
\* raises invalid_argument and leaves the graph as it was; and after any
\* sequence of calls no vertex has a duplicate neighbour entry.
AddEdgeGuards ==
    [][gr_last'.op = "addEdge" =>
          /\ (gr_last'.u = gr_last'.v =>
                 gr_last'.ret = "invalid_argument" /\ gr_g' = gr_g)
          /\ (/\ gr_last'.u # gr_last'.v
              /\ \/ <<gr_last'.u, gr_last'.v>> \in Arcs(gr_g)
                 \/ ~gr_g.directed /\ <<gr_last'.v, gr_last'.u>> \in Arcs(gr_g)
              => gr_last'.ret = "void" /\ gr_g' = gr_g)
          /\ NoDuplicateNeighbour(gr_g')]_vars

\* an addEdge(u, v, w) on an undirected graph has returned and the graph holds
\* the edge in the list of v with another weight: the call found the edge there
AddEdgeGuardsWitness ==
    /\ gr_last.op = "addEdge"
    /\ gr_last.ret = "void"
    /\ ~gr_g.directed
    /\ \E i \in 1..Len(gr_g.adj[gr_last.v]) :
          /\ gr_g.adj[gr_last.v][i][1] = gr_last.u
          /\ gr_g.adj[gr_last.v][i][2] # gr_last.w

\* ---- removeEdge and the edge count
\* the list lst without its entries for the neighbours in gone
WithoutNeighbours(lst, gone) == SelectSeq(lst, LAMBDA e : e[1] \notin gone)

RECURSIVE ListLengths(_, _)
\* the total length of the adjacency lists of the vertices u..n-1
ListLengths(g, u) ==
    IF u >= g.n THEN 0 ELSE Len(g.adj[u]) + ListLengths(g, u + 1)

\* m() is the number of logical edges the adjacency lists hold: the number of
\* arcs of a directed graph; for an undirected graph half the total length of
\* the lists, hasArc being symmetric
EdgeCountRight(g) ==
    IF g.directed THEN g.m = ListLengths(g, 0) /\ g.m = Cardinality(Arcs(g))
    ELSE /\ 2 * g.m = ListLengths(g, 0)
         /\ \A u, v \in 0..(g.n - 1) : hasArc(g, u, v) <=> hasArc(g, v, u)

\* C33: removeEdge(u, v) returns true exactly when the edge existed; then the
\* arc u->v, and for an undirected graph v->u as well, is gone and every other
\* edge is as it was; on a missing edge it returns false and changes nothing.
\* After any sequence of addEdge and removeEdge calls m() is the number of
\* logical edges in the adjacency lists.
RemoveEdgeRight ==
    [][/\ gr_last'.op = "removeEdge" =>
             IF <<gr_last'.u, gr_last'.v>> \in Arcs(gr_g)
                THEN /\ gr_last'.ret = "true"
                     /\ gr_g'.n = gr_g.n /\ gr_g'.directed = gr_g.directed
                     /\ \A x \in 0..(gr_g.n - 1) :
                           gr_g'.adj[x] = WithoutNeighbours(gr_g.adj[x],
                              IF x = gr_last'.u THEN {gr_last'.v}
                              ELSE IF x = gr_last'.v /\ ~gr_g.directed THEN {gr_last'.u}
                              ELSE {})
                ELSE gr_last'.ret = "false" /\ gr_g' = gr_g
       /\ EdgeCountRight(gr_g')]_vars

\* removeEdge has returned true on an undirected graph that still holds an edge
RemoveEdgeWitness ==
    /\ gr_last.op = "removeEdge"
    /\ gr_last.ret = "true"
    /\ ~gr_g.directed
    /\ gr_g.m >= 1
    /\ ~hasArc(gr_g, gr_last.u, gr_last.v)

\* ---- failures of accept() and recv()
\* the step of the Pipeline acceptor in which recv() fails on the connection
\* just accepted: the connection is closed with nothing written to it, nothing
\* is enqueued, no RequestId is used up, every other connection and every
\* stage is as before, and the acceptor is back at accept()
AcceptorRecvFailure ==
    (Len(conns') = Len(conns) + 1 /\ conns'[Len(conns')].id = 0) =>
        /\ ~conns'[Len(conns')].open
        /\ conns'[Len(conns')].out = <<>>
        /\ SubSeq(conns', 1, Len(conns)) = conns
        /\ UNCHANGED <<queueVars, next_id, parseVars, dispVars, alg_pc, aggVars, send_pc>>
        /\ (~g_stop => main_pc'.at = "accept")

\* the steps of a Leader/Followers worker whose accept() fails: nothing is
\* accepted or handled and the other workers are as before; with no stop
\* requested the worker goes back to the head of its loop without a connection
WorkerAcceptFailure(w) ==
    /\ (w_pc[w] = "accept" /\ w_cfd'[w] = -1) =>
          /\ lf_accepted' = lf_accepted /\ lf_handled' = lf_handled
          /\ \A x \in Workers \ {w} : w_pc'[x] = w_pc[x] /\ w_cfd'[x] = w_cfd[x]
    /\ (w_pc[w] = "failed" /\ w_pc'[w] # "failed") =>
          /\ lf_accepted' = lf_accepted /\ lf_handled' = lf_handled
          /\ g_has_leader' = g_has_leader /\ g_cv' = g_cv
          /\ \A x \in Workers \ {w} : w_pc'[x] = w_pc[x] /\ w_cfd'[x] = w_cfd[x]
          /\ w_cfd'[w] = 0
          /\ (~lf_stop => w_pc'[w] = "loop")

\* a worker past the release block does not hold the leadership
LeadershipReleased(w) ==
    (w_pc[w] \in {"failed", "handle"} /\ g_has_leader) =>
        \E x \in Workers \ {w} : w_pc[x] \in {"accept", "release"}

\* the step in which handle_client leaves recv(): whether recv() failed
\* (nothing is written) or the one reply is written, the connection is closed
\* and the worker is back at the head of its loop
HandleClientRecv ==
    (hc_pc = "recv" /\ hc_pc' # "recv") =>
        /\ hc_pc' = "closed" /\ ~hc_open'
        /\ hc_out' = <<>> \/ hc_out' = handle_client(hc_line)
        /\ \E w \in Workers :
              /\ w_pc[w] = "handle" /\ w_pc'[w] = "loop" /\ w_cfd'[w] = 0
              /\ \A x \in Workers \ {w} : w_pc'[x] = w_pc[x] /\ w_cfd'[x] = w_cfd[x]
        /\ g_has_leader' = g_has_leader /\ lf_accepted' = lf_accepted

\* C34: when accept fails while no stop is requested, or the first read on an
\* accepted connection fails or returns end-of-stream, the affected worker
\* (Leader/Followers) or the acceptor (Pipeline) closes that connection if one
\* exists, enqueues nothing for it, leaves leadership released and continues
\* its loop; the other requests in flight are unaffected.
IoFailuresIsolated ==
    [][/\ AcceptorRecvFailure
       /\ \A w \in Workers : WorkerAcceptFailure(w)
       /\ \A w \in Workers : LeadershipReleased(w)'
       /\ HandleClientRecv]_vars

\* recv() failed on a connection of the Pipeline server, and a connection
\* accepted after it has been answered
IoFailuresWitness ==
    \E j, k \in 1..Len(conns) :
        /\ j < k
        /\ conns[j].id = 0 /\ ~conns[j].open
        /\ conns[k].id # 0 /\ conns[k].out # <<>>

\* ---- the stop flag and the stage loops
\* a stage thread with position pc and mailbox q, once g_stop is set: a thread
\* that is handling a message does not go back to its loop; a thread that
\* takes a message out of its mailbox does not go back to its loop after it;
\* and a thread that has left its loop stays out and takes nothing more
StageObservesStop(pc, pcNext, q, qNext) ==
    /\ (g_stop /\ pc # "run") => pcNext # "run"
    /\ (g_stop /\ Len(qNext.q) < Len(q.q)) => pcNext # "run"
    /\ pc = "done" => pcNext = "done" /\ Len(qNext.q) >= Len(q.q)

AggPops ==
    /\ agg_pc = "run"
    /\ q_agg_in.q # <<>>
    /\ q_agg_in' = BQPopRest(q_agg_in)

\* C36: in the wired pipeline the aggregator pops the BEGIN sentinel of a
\* RequestId before it pops any algorithm result of that id (the dispatcher
\* pushes BEGIN before any AlgoTask, and the mailbox is FIFO): whenever a result
\* is popped, the state of its request has been created and holds the handle
\* and the label of the request; hence no Response is pushed for an id whose
\* BEGIN has not been consumed.
BeginComesFirst ==
    [][/\ \A id \in DOMAIN disp_delivered' :
             disp_delivered'[id] # {} => "BEGIN" \in disp_delivered'[id]
       /\ (AggPops /\ Head(q_agg_in.q).algoName # "BEGIN") =>
             /\ Head(q_agg_in.q).id \in DOMAIN reqs_
             /\ reqs_[Head(q_agg_in.q).id].client_fd = Head(q_agg_in.q).client_fd
             /\ reqs_[Head(q_agg_in.q).id].label = Head(q_agg_in.q).label
       /\ Len(q_send'.q) > Len(q_send.q) =>
             /\ AggPops
             /\ Head(q_agg_in.q).id \in DOMAIN reqs_]_vars

\* the aggregator has recorded a result of the second request while the first
\* is still pending
BeginComesFirstWitness ==
    /\ 1 \in DOMAIN reqs_ /\ 2 \in DOMAIN reqs_
    /\ DOMAIN reqs_[2].got # {}

\* ---- the order of the replies
\* the connections whose request was built into a graph
BuiltConns ==
    {k \in 1..Len(conns) :
        conns[k].id # 0 /\ build_graph_from_command(conns[k].line).kind = "graph"}

\* the aggregator has pushed the Response of request id: it has consumed its
\* four results
Emitted(id) == Cardinality({r \in agg_consumed : r.id = id}) = 4

\* C37: for any two successfully built requests with RequestIds a < b, the
\* aggregator pushes the Response of a before the Response of b, and the
\* sender transmits them in that order, for every interleaving of the four
\* algorithm stages.
RepliesInRequestOrder ==
    [][/\ Len(q_send'.q) > Len(q_send.q) =>
             \A j \in BuiltConns : conns[j].id < Head(q_agg_in.q).id => Emitted(conns[j].id)
       /\ \A k \in BuiltConns :
             (conns[k].out = <<>> /\ conns'[k].out # <<>>) =>
                 \A j \in BuiltConns : conns[j].id < conns[k].id => conns[j].out # <<>>]_vars

\* the first of two built requests is answered while results of the second
\* are recorded at the aggregator
RepliesInOrderWitness ==
    /\ BuiltConns = {1, 2}
    /\ conns[1].out # <<>>
    /\ conns[2].id \in DOMAIN reqs_
    /\ DOMAIN reqs_[conns[2].id].got # {}

\* ------------------------------------------------------------------ C38
\* the <<handle, RequestId>> pairs of the records in a sequence
HandlesIn(s) == {<<s[i].client_fd, s[i].id>> : i \in 1..Len(s)}

\* the connection handles a ClientMsg holds: in the parser's mailbox or in
\* the parser's hands
MsgHandles == HandlesIn(q_in.q) \cup HandlesIn(parse_msg)

\* the handles held behind the parser: by GraphJobs, AlgoTasks, results and
\* the states of the aggregator
JobHandles ==
    HandlesIn(q_graph.q) \cup HandlesIn(disp_job) \cup HandlesIn(q_agg_in.q)
       \cup UNION {HandlesIn(q_alg[a].q) : a \in AlgoSet}
       \cup {<<reqs_[id].client_fd, id>> : id \in DOMAIN reqs_}

\* a handle some record holds is the handle of exactly one connection, which
\* is open, has been written nothing and, where the record carries a
\* RequestId, is the connection of that request
HandleLive(h) ==
    \E k \in 1..Len(conns) :
       /\ conns[k].open /\ conns[k].fd = h[1] /\ conns[k].out = <<>>
       /\ h[2] # 0 => conns[k].id = h[2]
       /\ \A j \in 1..Len(conns) : (conns[j].open /\ conns[j].fd = h[1]) => j = k

\* Pipeline: every handle in flight is live; a request is held either as a
\* ClientMsg, or behind the parser, or as one Response, never in two of these
\* ways, and no two requests hold one handle; a closed connection has been
\* written at most one reply and an open one none
HandlesOwned ==
    /\ \A h \in MsgHandles \cup JobHandles \cup HandlesIn(q_send.q) : HandleLive(h)
    /\ \A h \in MsgHandles : \A o \in JobHandles \cup HandlesIn(q_send.q) : h[1] # o[1]
    /\ \A h \in JobHandles : \A o \in HandlesIn(q_send.q) : h[1] # o[1]
    /\ \A h, o \in MsgHandles \cup JobHandles : h[1] = o[1] => h[2] = o[2]
    /\ \A i, j \in 1..Len(q_send.q) :
          q_send.q[i].client_fd = q_send.q[j].client_fd => i = j
    /\ \A k \in 1..Len(conns) :
          /\ Len(conns[k].out) <= 1
          /\ conns[k].open => conns[k].out = <<>>

\* Leader/Followers: handle_client has returned for no more connections than
\* were accepted, and the connection it serves has been written at most one
\* reply and none while it is open
LfHandlesOwned ==
    /\ lf_handled <= lf_accepted
    /\ Len(hc_out) <= 1
    /\ hc_open => hc_out = <<>>

\* C38: each connection is replied to and closed at most once. In every
\* step, a connection changes only by being closed, it is open and unwritten
\* before, and nothing changes on a closed one; afterwards every handle in
\* flight still names an open, unwritten connection of its own request.
RepliedAndClosedOnce ==
    [][/\ HandlesOwned'
       /\ LfHandlesOwned'
       /\ \A k \in 1..Len(conns) :
             conns'[k] # conns[k] =>
                /\ conns[k].open /\ conns[k].out = <<>>
                /\ ~conns'[k].open /\ Len(conns'[k].out) = 1
       /\ (hc_out' # hc_out \/ hc_open' # hc_open) => (hc_open /\ ~hc_open')]_vars

\* a connection was sent the Error reply and closed, its descriptor was given
\* to the next connection, and that one was sent its Response
RepliedAndClosedOnceWitness ==
    /\ Len(conns) = 2
    /\ conns[1].fd = conns[2].fd
    /\ conns[1].out # <<>> /\ conns[2].out # <<>>
    /\ conns[1].out[1][1] = "Error: "
    /\ conns[2].out[1][1] # "Error: "

\* ------------------------------------------------------------------ C39
\* C39: no connection is left open by shutdown. Once main() has closed
\* every mailbox and joined the eight stage threads, every connection the
\* acceptor accepted has been closed.
NoConnectionLeftOpen ==
    main_pc.at = "done" => \A k \in 1..Len(conns) : ~conns[k].open

\* ------------------------------------------------------------------ C40
\* a worker that runs and is not processing a client: it holds no connection
\* that accept() returned
IdleWorkers == {w \in Workers : w_pc[w] \notin {"unstarted", "done"} /\ w_cfd[w] # 1}

\* the workers that hold leadership: after g_has_leader = true, up to the
\* release
Leaders == {w \in Workers : w_pc[w] \in {"accept", "release"}}

\* leadership is lost: no stop is requested, no worker is in accept or about
\* to hand leadership over, and every idle worker is blocked on g_cv
LeadershipLost ==
    /\ ~lf_stop
    /\ Leaders = {}
    /\ IdleWorkers # {}
    /\ \A w \in IdleWorkers : w_pc[w] = "waiting" /\ w \in g_cv

\* C40: leadership is never lost. While no stop is requested the idle
\* workers are never all blocked on the condition variable with no leader
\* ahead of them that will notify, a set flag always has a worker in accept
\* or at the release behind it, and whenever the flag is clear and some worker
\* is idle, a worker comes to call accept, or a stop is requested.
LeadershipNeverLost ==
    /\ [](~LeadershipLost)
    /\ [](~lf_stop /\ g_has_leader => Leaders # {})
    /\ (~lf_stop /\ ~g_has_leader /\ IdleWorkers # {})
          ~> (lf_stop \/ \E w \in Workers : w_pc[w] = "accept")

\* a worker is blocked on g_cv behind a leader, the leader accepts a
\* connection and hands leadership over, and the woken worker is in accept
\* while the former leader serves its client
LeadershipWitness ==
    /\ ~lf_stop
    /\ \E a, b \in Workers :
          /\ w_pc[a] = "handle"
          /\ w_pc[b] = "accept"
          /\ g_has_leader
          /\ lf_accepted = 1

=============================================================================
